---- MODULE Spec2Model ----
(***************************************************************************)
(* freeSearch: the chat route (POST /api/chat, agentic tool-calling mode), *)
(* the search gateway it calls and the message store it writes to.         *)
(* Texts are sequences of one-character strings so that trim, length and   *)
(* substring are computed rather than assumed.                             *)
(***************************************************************************)
EXTENDS Integers, Sequences, FiniteSets, TLC

VARIABLES
    body,               \* per request: the parsed request body
    pc,                 \* per request: position in POST
    response,           \* per request: kind of HTTP response returned
    userQuery,          \* per request: extracted text of the last message
    rewrittenQuery,     \* per request: result of rewriteQuery
    langChainMessages,  \* per request: the original message list
    currentMessages,    \* per request: the running list (finalMessages aliases it)
    collectedSources,   \* per request: sources (capturedSources aliases it)
    iter,               \* per request: loop variable i
    toolCallingFailed,  \* per request: flag set by the loop's catch
    pending,            \* per request: tool calls of the current response not yet executed
    stream,             \* per request: parts written to the UI message stream
    completion,         \* per request: text accumulated by toUIMessageStream
    titleTask,          \* per request: the un-awaited title-update promise chain
    db,                 \* the store: the conversations and their messages
    cache,              \* unstable_cache entries of searchWeb
    now,                \* time, counted in revalidate windows
    log,                \* per request: what the request did (calls made, errors logged)
    gw,                 \* calls of the search gateway made from outside the chat route
    cls                 \* a query handed to the classifier, and the classifier's answer

vars == <<body, pc, response, userQuery, rewrittenQuery, langChainMessages,
          currentMessages, collectedSources, iter, toolCallingFailed, pending,
          stream, completion, titleTask, db, cache, now, log, gw, cls>>

\* the state of the chat route's requests and of the store
routeVars == <<body, pc, response, userQuery, rewrittenQuery, langChainMessages,
               currentMessages, collectedSources, iter, toolCallingFailed,
               pending, stream, completion, titleTask, db, log>>

----------------------------------------------------------------------------
(* Bounds of the model *)

MaxToolCalls == 2       \* tool calls in one model response
MaxTotalCalls == 5      \* tool calls requested over one request
MaxChunks == 2          \* text chunks of one streamed answer
MaxTime == 0            \* revalidate windows that pass during one request
MaxItems == 2           \* entries of one backend payload
MaxLimit == 2           \* limits tried besides the gateway's own
MaxGatewayCalls == 3    \* gateway calls made one after the other
MaxWindows == 1         \* revalidate windows that pass between gateway calls
MaxWords == 3           \* words of a query handed to the classifier
MaxOutput == 4          \* tokens of one answer of the classifier model
MaxPairCalls == 1       \* tool calls of one of two concurrent requests
MaxPairChunks == 1      \* text chunks of one of two concurrent answers

(* Program constants *)

MAX_ITERATIONS == 5
SEARCH_LIMIT == 5
TITLE_MAX == 50
TITLE_KEEP == 47

Reqs == {1, 2}

----------------------------------------------------------------------------
(* Texts *)

SPACE == " "

RECURSIVE TrimStart(_)
TrimStart(s) ==
    IF s = <<>> THEN <<>>
    ELSE IF Head(s) = SPACE THEN TrimStart(Tail(s)) ELSE s

RECURSIVE TrimEnd(_)
TrimEnd(s) ==
    IF s = <<>> THEN <<>>
    ELSE IF s[Len(s)] = SPACE THEN TrimEnd(SubSeq(s, 1, Len(s) - 1)) ELSE s

Trim(s) == TrimEnd(TrimStart(s))

RECURSIVE Join(_)
Join(ss) == IF ss = <<>> THEN <<>> ELSE Head(ss) \o Join(Tail(ss))

RECURSIVE SelectText(_)
SelectText(parts) ==
    IF parts = <<>> THEN <<>>
    ELSE IF Head(parts).type = "text"
         THEN <<Head(parts).text>> \o SelectText(Tail(parts))
         ELSE SelectText(Tail(parts))

\* message.content.find(c => c.type === "text")?.text || ""
FirstText(arr) ==
    LET t == SelectText(arr) IN IF t = <<>> THEN <<>> ELSE Head(t)

\* A UI message: parts array (hasParts), string content or array content.
UIMessage(role, hasParts, parts, contentKind, contentText, contentArr) ==
    [role |-> role, hasParts |-> hasParts, parts |-> parts,
     contentKind |-> contentKind, contentText |-> contentText,
     contentArr |-> contentArr]

extractTextFromMessage(message) ==
    IF message.hasParts THEN Join(SelectText(message.parts))
    ELSE IF message.contentKind = "string" THEN message.contentText
    ELSE IF message.contentKind = "array" THEN FirstText(message.contentArr)
    ELSE <<>>

----------------------------------------------------------------------------
(* LangChain messages *)

NoContent == [kind |-> "text", text |-> <<>>, items |-> <<>>, tool |-> ""]
TextContent(t) == [kind |-> "text", text |-> t, items |-> <<>>, tool |-> ""]

LCMessage(type, content, calls, callId) ==
    [type |-> type, content |-> content, tool_calls |-> calls,
     tool_call_id |-> callId]

SystemMessage == LCMessage("system", TextContent(<<"S", "Y", "S">>), <<>>, "")
HumanMessage(t) == LCMessage("human", TextContent(t), <<>>, "")
AIMessage(t) == LCMessage("ai", TextContent(t), <<>>, "")
AIToolCallMessage(calls) == LCMessage("ai", NoContent, calls, "")
ToolMessage(content, callId) == LCMessage("tool", content, <<>>, callId)

RECURSIVE toLangChainMessages(_)
toLangChainMessages(messages) ==
    IF messages = <<>> THEN <<>>
    ELSE LET msg == Head(messages)
             content == extractTextFromMessage(msg)
         IN <<IF msg.role = "user" THEN HumanMessage(content)
              ELSE AIMessage(content)>>
            \o toLangChainMessages(Tail(messages))

\* messages.slice(0, -1)
AllButLast(s) == IF s = <<>> THEN <<>> ELSE SubSeq(s, 1, Len(s) - 1)

RECURSIVE conversationHistory(_)
conversationHistory(messages) ==
    IF messages = <<>> THEN <<>>
    ELSE LET msg == Head(messages)
         IN <<[role |-> IF msg.role = "user" THEN "human" ELSE "assistant",
               content |-> extractTextFromMessage(msg)]>>
            \o conversationHistory(Tail(messages))

----------------------------------------------------------------------------
(* Search gateway (lib/searxng) *)

\* r.x || fallback : an absent field and an empty string are both falsy
OrElse(v, fallback) == IF v = "" THEN fallback ELSE v

RawItem(title, link, url, snippet, content, engine) ==
    [title |-> title, link |-> link, url |-> url, snippet |-> snippet,
     content |-> content, engine |-> engine]

EmptyItem == RawItem("", "", "", "", "", "")

parseResultItem(r) ==
    [title |-> OrElse(r.title, "Untitled"),
     url |-> OrElse(r.link, OrElse(r.url, "")),
     content |-> OrElse(r.snippet, OrElse(r.content, "")),
     engine |-> OrElse(r.engine, "searxng")]

parseDirectItemNoDefaults(r) ==
    [title |-> r.title, url |-> r.url, content |-> r.content, engine |-> r.engine]

\* the inline mapping of searchWebDirect
parseDirectItem(r) ==
    [title |-> OrElse(r.title, "Untitled"),
     url |-> OrElse(r.url, ""),
     content |-> OrElse(r.content, ""),
     engine |-> OrElse(r.engine, "unknown")]

Min(a, b) == IF a < b THEN a ELSE b

\* xs.slice(0, limit)
Slice(xs, limit) == SubSeq(xs, 1, Min(limit, Len(xs)))

MapSeq(Op(_), xs) == [i \in 1..Len(xs) |-> Op(xs[i])]

\* JSON values: an object (its string fields and an optional results array)
\* or an array of values.
JObj(fields, hasResults, results) ==
    [j |-> "obj", fields |-> fields, hasResults |-> hasResults,
     results |-> results, elems |-> <<>>]
JArr(elems) ==
    [j |-> "arr", fields |-> EmptyItem, hasResults |-> FALSE,
     results |-> <<>>, elems |-> elems]

JNull ==
    [j |-> "null", fields |-> EmptyItem, hasResults |-> FALSE,
     results |-> <<>>, elems |-> <<>>]
JNumber ==
    [j |-> "num", fields |-> EmptyItem, hasResults |-> FALSE,
     results |-> <<>>, elems |-> <<>>]

\* the string fields a value shows when read as a result item
FieldsOf(v) == IF v.j = "obj" THEN v.fields ELSE EmptyItem

\* What searxngTool.invoke gives: it throws, returns a non-string, or returns
\* a string: the sentinel, text that is no JSON even inside brackets
\* (garbage), or the texts of JSON values joined by commas (vals).
RawThrow == [kind |-> "throw", sentinel |-> FALSE, garbage |-> FALSE, vals |-> <<>>]
RawNonString == [kind |-> "nonstring", sentinel |-> FALSE, garbage |-> FALSE, vals |-> <<>>]
RawSentinel == [kind |-> "string", sentinel |-> TRUE, garbage |-> FALSE, vals |-> <<>>]
RawGarbage == [kind |-> "string", sentinel |-> FALSE, garbage |-> TRUE, vals |-> <<>>]
RawJoined(vals) == [kind |-> "string", sentinel |-> FALSE, garbage |-> FALSE, vals |-> vals]

\* rawResults.startsWith("[")
StartsWithBracket(raw) == Len(raw.vals) > 0 /\ raw.vals[1].j = "arr"

JSONParseLenient(raw) == [ok |-> TRUE, value |-> JArr(<<JNumber>>)]

\* JSON.parse(rawResults.startsWith("[") ? rawResults : `[${rawResults}]`)
JSONParseWrapped(raw) ==
    IF raw.garbage THEN [ok |-> FALSE, value |-> JArr(<<>>)]
    ELSE IF StartsWithBracket(raw)
         THEN IF Len(raw.vals) = 1
              THEN [ok |-> TRUE, value |-> raw.vals[1]]
              ELSE [ok |-> FALSE, value |-> JArr(<<>>)]
         ELSE [ok |-> TRUE, value |-> JArr(raw.vals)]

\* What the direct request gives: a network error, a non-2xx status, a body
\* that is no JSON, or a JSON body with or without a results array.
DirectNetworkError == [kind |-> "network_error", hasResults |-> FALSE, results |-> <<>>]
DirectStatus == [kind |-> "status", hasResults |-> FALSE, results |-> <<>>]
DirectBadBody == [kind |-> "badjson", hasResults |-> FALSE, results |-> <<>>]
DirectNoResultsField == [kind |-> "json", hasResults |-> FALSE, results |-> <<>>]
DirectJson(results) == [kind |-> "json", hasResults |-> TRUE, results |-> results]
\* a results field that is no array of objects: slice, map or a field read throws
DirectBadResults == [kind |-> "json_badresults", hasResults |-> TRUE, results |-> <<>>]

\* what a gateway function gives back: it threw or returned results; the
\* requests it sent to the backend, in order
GatewayResult(threw, results, directCalls) ==
    [threw |-> threw, results |-> results, directCalls |-> directCalls,
     backend |-> IF directCalls = 1 THEN <<"direct">> ELSE <<>>]

\* await searxngTool.invoke(query) came first
AfterPrimary(res) == [res EXCEPT !.backend = <<"primary">> \o @]

searchWebDirectRethrowing(direct, limit) ==
    IF direct.kind = "json" /\ direct.hasResults
    THEN GatewayResult(FALSE, MapSeq(parseDirectItem, Slice(direct.results, limit)), 1)
    ELSE GatewayResult(TRUE, <<>>, 1)

searchWebDirect(direct, limit) ==
    IF direct.kind = "json" /\ direct.hasResults
    THEN GatewayResult(FALSE, MapSeq(parseDirectItem, Slice(direct.results, limit)), 1)
    ELSE GatewayResult(FALSE, <<>>, 1)

\* the three shapes accepted after the parse
NormalizeParsed(parsed, limit) ==
    IF parsed.j = "arr"
    THEN MapSeq(LAMBDA v : parseResultItem(FieldsOf(v)), Slice(parsed.elems, limit))
    ELSE IF parsed.hasResults
    THEN MapSeq(parseResultItem, Slice(parsed.results, limit))
    ELSE IF parsed.fields.title # "" \/ parsed.fields.url # ""
    THEN <<parseResultItem(parsed.fields)>>
    ELSE <<>>

\* parseResultItem(null) throws inside the inner try
NormalizeThrows(parsed, limit) ==
    /\ parsed.j = "arr"
    /\ \E i \in 1..Len(Slice(parsed.elems, limit)) : parsed.elems[i].j = "null"

OnParseErrorThrown(direct, limit) == GatewayResult(TRUE, <<>>, 0)

\* catch (parseError) { return await searchWebDirect(query, limit) }
OnParseError(direct, limit) == searchWebDirect(direct, limit)

OnNoResultsReturned(direct, limit) == GatewayResult(FALSE, <<>>, 0)

\* if (results.length === 0) return await searchWebDirect(query, limit)
OnNoResults(direct, limit) == searchWebDirect(direct, limit)

searchWebInternal(primary, direct, limit) ==
    AfterPrimary(
        IF primary.kind = "throw" THEN searchWebDirect(direct, limit)
        ELSE IF primary.kind # "string" THEN OnNoResults(direct, limit)
        ELSE IF primary.sentinel THEN searchWebDirect(direct, limit)
        ELSE LET p == JSONParseWrapped(primary)
             IN IF ~p.ok \/ NormalizeThrows(p.value, limit)
                THEN OnParseError(direct, limit)
                ELSE LET results == NormalizeParsed(p.value, limit)
                     IN IF Len(results) = 0 THEN OnNoResults(direct, limit)
                        ELSE GatewayResult(FALSE, results, 0))

\* unstable_cache(searchWebInternal, ..., {revalidate: 300}): an entry is
\* served while it is younger than the revalidate window; a miss runs
\* searchWebInternal and stores what it returned in place of the old entry.
\* c is the cache, t the time of the call.
CacheKey(query, limit) == <<query, limit>>
CacheHitNever(c, t, query, limit) == FALSE
CacheHit(c, t, query, limit) ==
    \E e \in c : e.key = CacheKey(query, limit) /\ e.at = t
CacheValue(c, t, query, limit) ==
    (CHOOSE e \in c : e.key = CacheKey(query, limit) /\ e.at = t).value
CachePut(c, t, query, limit, value) ==
    {e \in c : e.key # CacheKey(query, limit)}
    \cup {[key |-> CacheKey(query, limit), at |-> t, value |-> value]}

searchWeb(c, t, query, limit, primary, direct) ==
    IF CacheHit(c, t, query, limit)
    THEN [result |-> GatewayResult(FALSE, CacheValue(c, t, query, limit), 0),
          hit |-> TRUE, cache |-> c]
    ELSE LET res == searchWebInternal(primary, direct, limit)
         IN [result |-> res, hit |-> FALSE,
             cache |-> IF res.threw THEN c
                       ELSE CachePut(c, t, query, limit, res.results)]

getSearchResultsStructured(c, t, query, primary, direct) ==
    searchWeb(c, t, query, SEARCH_LIMIT, primary, direct)

----------------------------------------------------------------------------
(* Inputs of the model *)

TextPart(t) == [type |-> "text", text |-> t]
FilePart == [type |-> "file", text |-> <<>>]

MsgPartsA == UIMessage("user", TRUE, <<TextPart(<<"a">>)>>, "none", <<>>, <<>>)
MsgStringH == UIMessage("user", FALSE, <<>>, "string", <<"h">>, <<>>)
MsgArrayB == UIMessage("user", FALSE, <<>>, "array", <<>>, <<FilePart, TextPart(<<"b">>)>>)
MsgAssistant == UIMessage("assistant", FALSE, <<>>, "array", <<>>, <<TextPart(<<"r">>)>>)
MsgBlank == UIMessage("user", FALSE, <<>>, "string", <<SPACE, SPACE>>, <<>>)
MsgNoTextPart == UIMessage("user", TRUE, <<FilePart>>, "string", <<"a">>, <<>>)
MsgNoContent == UIMessage("user", FALSE, <<>>, "none", <<>>, <<>>)

Body(kind, messages, chatId) ==
    [kind |-> kind, messages |-> messages, chatId |-> chatId]

ChatIds == {"", "c1"}

MessageLists ==
    { <<>>, <<MsgAssistant>>, <<MsgPartsA, MsgAssistant>>, <<MsgBlank>>,
      <<MsgNoTextPart>>, <<MsgNoContent>>,
      <<MsgPartsA>>, <<MsgStringH, MsgAssistant, MsgArrayB>> }

\* kind: request.json() throws (badjson), messages absent (missing),
\* messages not an array (nonarray), messages an array (array)
SampleBodies ==
    { Body(k, <<>>, c) : k \in {"badjson", "missing", "nonarray"}, c \in ChatIds }
    \cup { Body("array", ms, c) : ms \in MessageLists, c \in ChatIds }

ToolCall(name, query, id) == [name |-> name, args |-> [query |-> query], id |-> id]

SearchCall == ToolCall("web_search", <<"z">>, "")
UnknownCall == ToolCall("lookup", <<"y">>, "t2")

\* the tool calls of one response: calls of a tool that is not registered,
\* then one call of the search tool
ToolCallLists ==
    { [i \in 1..n |-> IF i < n THEN UnknownCall ELSE SearchCall] :
        n \in 1..MaxToolCalls }

\* what chatModelWithTools.invoke does: throw, or respond with tool calls
\* (none: the model is ready to answer)
ModelResponses ==
    {[threw |-> TRUE, tool_calls |-> <<>>]}
    \cup {[threw |-> FALSE, tool_calls |-> tc] : tc \in ToolCallLists \cup {<<>>}}

ItemA == RawItem("A", "", "http://a", "", "x", "e")
ItemB == RawItem("", "http://b", "", "y", "", "")
ItemC == RawItem("C", "", "http://c", "", "", "")

SamplePrimary ==
    { RawThrow,
      RawJoined(<<JObj(ItemA, FALSE, <<>>), JObj(ItemB, FALSE, <<>>)>>) }

SampleDirect == { DirectNetworkError, DirectJson(<<ItemC>>) }

\* the text the rewriting model returns
RewrittenTexts == { <<"r", "w">> }

----------------------------------------------------------------------------
(* Chat route: helpers *)

\* lib/llm exports tools, the list bound to chatModelWithTools
Tools == {"web_search"}

NoResultsContent == [kind |-> "noresults", text |-> <<>>, items |-> <<>>, tool |-> ""]
NotFoundContent(name) == [kind |-> "notfound", text |-> <<>>, items |-> <<>>, tool |-> name]
ToolOutputContent(name) == [kind |-> "output", text |-> <<>>, items |-> <<>>, tool |-> name]

\* sources.map((r, i) => `[${i + 1}] ${r.title}\nURL: ${r.url}\n${r.content}`)
FormatResults(sources) ==
    [kind |-> "results", text |-> <<>>, tool |-> "",
     items |-> [i \in 1..Len(sources) |->
                   [label |-> i, title |-> sources[i].title,
                    url |-> sources[i].url, content |-> sources[i].content]]]

SearchQueryFromArgs(toolArgs, rewritten) == toolArgs.query

\* the query executeTool hands to getSearchResultsStructured
SearchQueryFor(toolArgs, rewritten) == rewritten

SearchEntry(query, args, sw, primary, direct) ==
    [query |-> query, args |-> args, hit |-> sw.hit, iter |-> 0,
     primary |-> IF sw.hit THEN "none" ELSE primary.kind,
     direct |-> IF sw.result.directCalls = 1 THEN direct.kind ELSE "none",
     found |-> Len(sw.result.results), results |-> sw.result.results]

executeToolThrowing(c, t, toolName, toolArgs, rewritten, primary, direct) ==
    [threw |-> TRUE, result |-> NotFoundContent(toolName),
     sources |-> <<>>, cache |-> c, searches |-> <<>>]

executeTool(c, t, toolName, toolArgs, rewritten, primary, direct) ==
    IF toolName = "web_search"
    THEN LET q == SearchQueryFor(toolArgs, rewritten)
             sw == getSearchResultsStructured(c, t, q, primary, direct)
             sources == sw.result.results
         IN [threw |-> sw.result.threw,
             result |-> IF Len(sources) = 0 THEN NoResultsContent
                        ELSE FormatResults(sources),
             sources |-> sources, cache |-> sw.cache,
             searches |-> <<SearchEntry(q, toolArgs.query, sw, primary, direct)>>]
    ELSE IF toolName \notin Tools
    THEN [threw |-> FALSE, result |-> NotFoundContent(toolName),
          sources |-> <<>>, cache |-> c, searches |-> <<>>]
    ELSE [threw |-> FALSE, result |-> ToolOutputContent(toolName),
          sources |-> <<>>, cache |-> c, searches |-> <<>>]

\* the log entries of one tool execution, marked with the loop's i
AtIteration(entries, i) == [k \in 1..Len(entries) |-> [entries[k] EXCEPT !.iter = i]]

LoopContinuesOneMore(i) == i <= MAX_ITERATIONS

\* for (let i = 0; i < MAX_ITERATIONS; i++)
LoopContinues(i) == i < MAX_ITERATIONS

FinalMessagesKept(failed, current, original) == current

\* if (toolCallingFailed) currentMessages = [...langChainMessages]
FinalMessages(failed, current, original) ==
    IF failed THEN original ELSE current

Part(type, data, text) == [type |-> type, data |-> data, text |-> text]

SourcesData(sources) ==
    [i \in 1..Len(sources) |->
        [title |-> OrElse(sources[i].title, sources[i].url),
         url |-> sources[i].url, snippet |-> sources[i].content, index |-> i]]

SourcesPartsUnguarded(sources) ==
    <<Part("data-sources", SourcesData(sources), <<>>)>>

\* if (capturedSources.length > 0) writer.write(sourcesDataPart)
SourcesParts(sources) ==
    IF Len(sources) > 0 THEN <<Part("data-sources", SourcesData(sources), <<>>)>>
    ELSE <<>>

Title(q) ==
    IF Len(q) > TITLE_MAX THEN SubSeq(q, 1, TITLE_KEEP) \o <<".", ".", ".">>
    ELSE q

\* JSON.stringify(capturedSources)
Stringify(sources) == [present |-> TRUE, json |-> sources]
NoSources == [present |-> FALSE, json |-> <<>>]

DbMessage(chatId, role, content, sources) ==
    [chatId |-> chatId, role |-> role, content |-> content, sources |-> sources]

\* rewriteQuery(conversationHistory, userQuery): the query itself when there
\* is no history or the model call fails, else the model's text
RewriteResults(history, query) ==
    IF history = <<>> THEN {query} ELSE {query} \cup RewrittenTexts

EmptyLog ==
    [validated |-> FALSE, creates |-> 0, rewrites |-> 0, toolModelCalls |-> 0,
     toolCalls |-> 0, searches |-> <<>>, streamed |-> <<>>, errors |-> {},
     userSaveFailed |-> FALSE, finals |-> 0]

NoTitleTask == [state |-> "none", title |-> <<>>]

\* the conversations of the store, in the order of their creation
Chats == <<"c1", "c2">>

\* db.chat.create({data: {title: "New Chat"}}) for each conversation: no
\* message yet; a conversation's updated timestamp is the time of its
\* creation
NewStore ==
    [title |-> [c \in {Chats[k] : k \in 1..Len(Chats)} |-> <<"New Chat">>],
     messages |-> <<>>,
     updatedAt |-> [c \in {Chats[k] : k \in 1..Len(Chats)} |->
                      CHOOSE k \in 1..Len(Chats) : Chats[k] = c],
     clock |-> Len(Chats)]

\* include: {messages: true}: the messages of one conversation
MessagesOf(d, chatId) == {k \in 1..Len(d.messages) : d.messages[k].chatId = chatId}

\* GET /api/chats: findMany({where: {messages: {some: {}}},
\* orderBy: {updatedAt: "desc"}})
ListChats(d) ==
    LET listed == {c \in DOMAIN d.title : MessagesOf(d, c) # {}}
    IN CHOOSE s \in [1..Cardinality(listed) -> listed] :
           /\ \A i, j \in DOMAIN s : i # j => s[i] # s[j]
           /\ \A i, j \in DOMAIN s : i < j => d.updatedAt[s[i]] >= d.updatedAt[s[j]]

\* a write to the conversation's own record sets its updated timestamp
Touched(d, chatId) ==
    [d EXCEPT !.clock = @ + 1, !.updatedAt[chatId] = d.clock + 1]

----------------------------------------------------------------------------
(* State after construction: the requests in active have arrived *)

RouteStart(active) ==
    /\ pc = [r \in Reqs |-> IF r \in active THEN "start" ELSE "idle"]
    /\ response = [r \in Reqs |-> "none"]
    /\ userQuery = [r \in Reqs |-> <<>>]
    /\ rewrittenQuery = [r \in Reqs |-> <<>>]
    /\ langChainMessages = [r \in Reqs |-> <<>>]
    /\ currentMessages = [r \in Reqs |-> <<>>]
    /\ collectedSources = [r \in Reqs |-> <<>>]
    /\ iter = [r \in Reqs |-> 0]
    /\ toolCallingFailed = [r \in Reqs |-> FALSE]
    /\ pending = [r \in Reqs |-> <<>>]
    /\ stream = [r \in Reqs |-> <<>>]
    /\ completion = [r \in Reqs |-> <<>>]
    /\ titleTask = [r \in Reqs |-> NoTitleTask]
    /\ db = NewStore
    /\ cache = {}
    /\ now = 0
    /\ log = [r \in Reqs |-> EmptyLog]

RouteInit(active) ==
    /\ body \in [Reqs -> SampleBodies]
    /\ \A r \in Reqs \ active : body[r] = Body("missing", <<>>, "")
    /\ RouteStart(active)

\* no query has been handed to the classifier
NoClassification ==
    [query |-> <<>>, done |-> FALSE, decision |-> "", modelCalls |-> 0,
     history |-> <<>>, response |-> [threw |-> FALSE, content |-> <<>>],
     context |-> 0, threw |-> FALSE, out |-> <<>>]

InitFor(active) == RouteInit(active) /\ gw = <<>> /\ cls = NoClassification

Init == InitFor({1})

----------------------------------------------------------------------------
(* POST /api/chat *)

IsBlankUntrimmed(q) == q = <<>>

\* !userQuery.trim()
IsBlank(q) == Trim(q) = <<>>

LastMessage(b) == b.messages[Len(b.messages)]

\* the response of the validation part: "500" when request.json() throws,
\* "400" for the three rejections, "pass" otherwise
ValidationStatus(b) ==
    IF b.kind = "badjson" THEN "500"
    ELSE IF b.kind # "array" \/ Len(b.messages) = 0 THEN "400"
    ELSE IF LastMessage(b).role # "user" THEN "400"
    ELSE IF IsBlank(extractTextFromMessage(LastMessage(b))) THEN "400"
    ELSE "pass"

Validate(r) ==
    /\ pc[r] = "start"
    /\ LET st == ValidationStatus(body[r])
       IN IF st = "pass"
          THEN /\ userQuery' = [userQuery EXCEPT ![r] =
                                    extractTextFromMessage(LastMessage(body[r]))]
               /\ pc' = [pc EXCEPT ![r] =
                            IF body[r].chatId # "" THEN "persist_user" ELSE "rewrite"]
               /\ log' = [log EXCEPT ![r].validated = TRUE]
               /\ UNCHANGED response
          ELSE /\ response' = [response EXCEPT ![r] = st]
               /\ pc' = [pc EXCEPT ![r] = "done"]
               /\ log' = [log EXCEPT ![r].errors =
                             IF st = "500" THEN @ \cup {"Chat API error"} ELSE @]
               /\ UNCHANGED userQuery
    /\ UNCHANGED <<gw, cls, now, body, rewrittenQuery, langChainMessages, currentMessages,
                   collectedSources, iter, toolCallingFailed, pending, stream,
                   completion, titleTask, db, cache>>

AfterUserSaveFailureSwallowed == "rewrite"

\* the create of the user message is awaited outside any inner try: its
\* rejection leaves the handler through the outer catch
AfterUserSaveFailure == "done"

TitleChainNotAwaited(created) == [state |-> "find", title |-> <<>>]

\* db.chat.findUnique(...) is called on the line after the awaited create:
\* the title chain exists only once the create has returned
TitleChainAfterCreate(created) ==
    IF created THEN [state |-> "find", title |-> <<>>] ELSE NoTitleTask

\* await db.message.create(user message); then the title chain is started
\* without being awaited.  A rejected create is caught by the outer catch.
PersistUser(r) ==
    /\ pc[r] = "persist_user"
    /\ \E ok \in BOOLEAN :
        IF ok
        THEN /\ db' = [db EXCEPT !.messages =
                          Append(@, DbMessage(body[r].chatId, "user",
                                              userQuery[r], NoSources))]
             /\ titleTask' = [titleTask EXCEPT ![r] = TitleChainAfterCreate(TRUE)]
             /\ pc' = [pc EXCEPT ![r] = "rewrite"]
             /\ log' = [log EXCEPT ![r].creates = @ + 1]
             /\ UNCHANGED response
        ELSE /\ response' = [response EXCEPT ![r] = "500"]
             /\ pc' = [pc EXCEPT ![r] = AfterUserSaveFailure]
             /\ log' = [log EXCEPT ![r].creates = @ + 1,
                                   ![r].userSaveFailed = TRUE,
                                   ![r].errors = @ \cup {"Chat API error"}]
             /\ titleTask' = [titleTask EXCEPT ![r] = TitleChainAfterCreate(FALSE)]
             /\ UNCHANGED db
    /\ UNCHANGED <<gw, cls, now, body, userQuery, rewrittenQuery, langChainMessages,
                   currentMessages, collectedSources, iter, toolCallingFailed,
                   pending, stream, completion, cache>>

IsFirstExchangeOrSecond(n) == n <= 2

\* if (chat && chat.messages.length <= 1)
IsFirstExchange(n) == n <= 1

\* db.chat.findUnique(...).then(...): reads the conversation
TitleFind(r) ==
    /\ titleTask[r].state = "find"
    /\ \E ok \in BOOLEAN :
        IF ok
        THEN /\ titleTask' = [titleTask EXCEPT ![r] =
                    IF IsFirstExchange(Cardinality(MessagesOf(db, body[r].chatId)))
                    THEN [state |-> "update", title |-> Title(userQuery[r])]
                    ELSE [state |-> "done", title |-> <<>>]]
             /\ UNCHANGED log
        ELSE /\ titleTask' = [titleTask EXCEPT ![r] =
                                 [state |-> "done", title |-> <<>>]]
             /\ log' = [log EXCEPT ![r].errors =
                           @ \cup {"Failed to check chat for title update"}]
    /\ UNCHANGED <<gw, cls, now, body, pc, response, userQuery, rewrittenQuery,
                   langChainMessages, currentMessages, collectedSources, iter,
                   toolCallingFailed, pending, stream, completion, db, cache>>

\* db.chat.update({data: {title}}).catch(...)
TitleUpdate(r) ==
    /\ titleTask[r].state = "update"
    /\ \E ok \in BOOLEAN :
        IF ok
        THEN /\ db' = Touched([db EXCEPT !.title[body[r].chatId] = titleTask[r].title],
                               body[r].chatId)
             /\ UNCHANGED log
        ELSE /\ log' = [log EXCEPT ![r].errors =
                           @ \cup {"Failed to update chat title"}]
             /\ UNCHANGED db
    /\ titleTask' = [titleTask EXCEPT ![r].state = "done"]
    /\ UNCHANGED <<gw, cls, now, body, pc, response, userQuery, rewrittenQuery,
                   langChainMessages, currentMessages, collectedSources, iter,
                   toolCallingFailed, pending, stream, completion, cache>>

\* rewriteQuery, then the original list and the loop's variables
Rewrite(r) ==
    /\ pc[r] = "rewrite"
    /\ \E rq \in RewriteResults(conversationHistory(AllButLast(body[r].messages)),
                                userQuery[r]) :
        LET original == <<SystemMessage>>
                        \o toLangChainMessages(AllButLast(body[r].messages))
                        \o <<HumanMessage(rq)>>
        IN /\ rewrittenQuery' = [rewrittenQuery EXCEPT ![r] = rq]
           /\ langChainMessages' = [langChainMessages EXCEPT ![r] = original]
           /\ currentMessages' = [currentMessages EXCEPT ![r] = original]
    /\ collectedSources' = [collectedSources EXCEPT ![r] = <<>>]
    /\ iter' = [iter EXCEPT ![r] = 0]
    /\ toolCallingFailed' = [toolCallingFailed EXCEPT ![r] = FALSE]
    /\ pc' = [pc EXCEPT ![r] = IF LoopContinues(0) THEN "loop" ELSE "after_loop"]
    /\ log' = [log EXCEPT ![r].rewrites = @ + 1]
    /\ UNCHANGED <<gw, cls, now, body, response, userQuery, pending, stream, completion,
                   titleTask, db, cache>>


AfterToolCallResponseNotAwaited == "after_loop"

\* where control goes after a response that carries tool calls: into the
\* for-of loop that awaits executeTool for each call
AfterToolCallResponse == "exec"

\* i++ and the loop condition, once every tool call of the response is done
AfterIteration(i) == IF LoopContinues(i + 1) THEN "loop" ELSE "after_loop"

\* one iteration up to the first await of a tool:
\* await chatModelWithTools.invoke(currentMessages)
LoopInvoke(r) ==
    /\ pc[r] = "loop"
    /\ \E resp \in ModelResponses :
        /\ log[r].toolCalls + Len(resp.tool_calls) <= MaxTotalCalls
        /\ log' = [log EXCEPT ![r].toolModelCalls = @ + 1,
                              ![r].toolCalls = @ + Len(resp.tool_calls),
                              ![r].errors = IF resp.threw
                                            THEN @ \cup {"Tool calling failed"}
                                            ELSE @]
        /\ IF resp.threw
           THEN /\ toolCallingFailed' = [toolCallingFailed EXCEPT ![r] = TRUE]
                /\ pc' = [pc EXCEPT ![r] = "after_loop"]
                /\ UNCHANGED <<currentMessages, pending>>
           ELSE IF Len(resp.tool_calls) = 0
           THEN /\ pc' = [pc EXCEPT ![r] = "after_loop"]
                /\ UNCHANGED <<currentMessages, pending, toolCallingFailed>>
           ELSE /\ currentMessages' = [currentMessages EXCEPT ![r] =
                        Append(@, AIToolCallMessage(resp.tool_calls))]
                /\ pending' = [pending EXCEPT ![r] = resp.tool_calls]
                /\ pc' = [pc EXCEPT ![r] = AfterToolCallResponse]
                /\ UNCHANGED toolCallingFailed
    /\ UNCHANGED <<gw, cls, now, body, response, userQuery, rewrittenQuery, langChainMessages,
                   collectedSources, iter, stream, completion, titleTask, db,
                   cache>>

CollectedByAll(all, r, sources) == [q \in DOMAIN all |-> all[q] \o sources]

\* if (sources.length > 0) collectedSources.push(...sources), on the array
\* declared inside the handler
Collected(all, r, sources) ==
    [all EXCEPT ![r] = IF Len(sources) > 0 THEN @ \o sources ELSE @]

\* one turn of for (const toolCall of toolCalls): await executeTool(...),
\* collect its sources, push its ToolMessage; a throw goes to the catch.
\* t is the time of the call: revalidate windows may have passed since the
\* cache was last used.
ExecTool(r) ==
    /\ pc[r] = "exec"
    /\ pending[r] # <<>>
    /\ \E primary \in SamplePrimary, direct \in SampleDirect, t \in now..MaxTime :
        LET toolCall == Head(pending[r])
            ex == executeTool(cache, t, toolCall.name, toolCall.args,
                              rewrittenQuery[r], primary, direct)
            rest == Tail(pending[r])
        IN /\ toolCall.name # "web_search" => t = now
           /\ cache' = ex.cache
           /\ now' = t
           /\ IF ex.threw
              THEN /\ toolCallingFailed' = [toolCallingFailed EXCEPT ![r] = TRUE]
                   /\ pending' = [pending EXCEPT ![r] = <<>>]
                   /\ pc' = [pc EXCEPT ![r] = "after_loop"]
                   /\ log' = [log EXCEPT ![r].searches = @ \o AtIteration(ex.searches, iter[r]),
                                         ![r].errors = @ \cup {"Tool calling failed"}]
                   /\ UNCHANGED <<collectedSources, currentMessages, iter>>
              ELSE /\ collectedSources' = Collected(collectedSources, r, ex.sources)
                   /\ currentMessages' = [currentMessages EXCEPT ![r] =
                          Append(@, ToolMessage(ex.result,
                                                OrElse(toolCall.id, toolCall.name)))]
                   /\ pending' = [pending EXCEPT ![r] = rest]
                   /\ iter' = [iter EXCEPT ![r] = IF rest = <<>> THEN @ + 1 ELSE @]
                   /\ pc' = [pc EXCEPT ![r] =
                                IF rest = <<>> THEN AfterIteration(iter[r]) ELSE @]
                   /\ log' = [log EXCEPT ![r].searches = @ \o AtIteration(ex.searches, iter[r])]
                   /\ UNCHANGED toolCallingFailed
    /\ UNCHANGED <<gw, cls, body, response, userQuery, rewrittenQuery, langChainMessages,
                   stream, completion, titleTask, db>>

\* after the loop: the fallback, createUIMessageStream and the start of
\* execute (the sources part, then chatModel.stream(finalMessages) is
\* called); the streaming response is returned
AfterLoop(r) ==
    /\ pc[r] = "after_loop"
    /\ LET final == FinalMessages(toolCallingFailed[r], currentMessages[r],
                                  langChainMessages[r])
       IN /\ currentMessages' = [currentMessages EXCEPT ![r] = final]
          /\ log' = [log EXCEPT ![r].streamed = final]
    /\ stream' = [stream EXCEPT ![r] = SourcesParts(collectedSources[r])]
    /\ response' = [response EXCEPT ![r] = "stream"]
    /\ pc' = [pc EXCEPT ![r] = "stream_call"]
    /\ UNCHANGED <<gw, cls, now, body, userQuery, rewrittenQuery, langChainMessages,
                   collectedSources, iter, toolCallingFailed, pending,
                   completion, titleTask, db, cache>>

\* await chatModel.stream(finalMessages) settles
StreamCall(r) ==
    /\ pc[r] = "stream_call"
    /\ \E ok \in BOOLEAN :
        IF ok
        THEN /\ pc' = [pc EXCEPT ![r] = "streaming"]
             /\ UNCHANGED stream
        ELSE /\ pc' = [pc EXCEPT ![r] = "done"]
             /\ stream' = [stream EXCEPT ![r] = Append(@, Part("error", <<>>, <<>>))]
    /\ UNCHANGED <<gw, cls, now, body, response, userQuery, rewrittenQuery, langChainMessages,
                   currentMessages, collectedSources, iter, toolCallingFailed,
                   pending, completion, titleTask, db, cache, log>>

HasPart(parts, type) == \E k \in 1..Len(parts) : parts[k].type = type

\* whether the parts written still reach the client: after a disconnect
\* they are dropped
ClientListens(r) == ~HasPart(stream[r], "abort")

\* writer.write / the merged stream's enqueue
Written(r, part) == IF ClientListens(r) THEN Append(stream[r], part) ELSE stream[r]

\* where a request goes when its client disconnects: the reading of the
\* model stream stops, or it goes on without a listener (nothing in the
\* route hands the request's abort signal to chatModel.stream)
AfterDisconnect == {"done", "streaming"}

\* one text chunk of the model: it is added to the completion and goes to
\* the client when there still is one
StreamChunk(r) ==
    /\ pc[r] = "streaming"
    /\ Len(completion[r]) < MaxChunks
    /\ stream' = [stream EXCEPT ![r] = Written(r, Part("text", <<>>, <<"t">>))]
    /\ completion' = [completion EXCEPT ![r] = @ \o <<"t">>]
    /\ UNCHANGED <<gw, cls, now, body, pc, response, userQuery, rewrittenQuery,
                   langChainMessages, currentMessages, collectedSources, iter,
                   toolCallingFailed, pending, titleTask, db, cache, log>>

\* onFinal: if (capturedChatId && completion) ... db.message.create
OnFinal(chatId, text) ==
    IF chatId # "" /\ text # <<>> THEN "persist_assistant" ELSE "done"

\* the model stream ends: onFinal(completion) runs; the stream to the client
\* is closed once onFinal has returned
StreamFinish(r) ==
    /\ pc[r] = "streaming"
    /\ LET to == OnFinal(body[r].chatId, completion[r])
       IN /\ pc' = [pc EXCEPT ![r] = to]
          /\ stream' = [stream EXCEPT ![r] =
                           IF to = "done" THEN Written(r, Part("finish", <<>>, <<>>))
                           ELSE @]
    /\ log' = [log EXCEPT ![r].finals = @ + 1]
    /\ UNCHANGED <<gw, cls, now, body, response, userQuery, rewrittenQuery, langChainMessages,
                   currentMessages, collectedSources, iter, toolCallingFailed,
                   pending, completion, titleTask, db, cache>>

\* the model stream breaks (onFinal never runs), or the client goes away
StreamBreak(r) ==
    /\ pc[r] = "streaming"
    /\ \/ /\ stream' = [stream EXCEPT ![r] = Written(r, Part("error", <<>>, <<>>))]
          /\ pc' = [pc EXCEPT ![r] = "done"]
       \/ /\ ClientListens(r)
          /\ stream' = [stream EXCEPT ![r] = Append(@, Part("abort", <<>>, <<>>))]
          /\ \E p \in AfterDisconnect : pc' = [pc EXCEPT ![r] = p]
    /\ UNCHANGED <<gw, cls, now, body, response, userQuery, rewrittenQuery, langChainMessages,
                   currentMessages, collectedSources, iter, toolCallingFailed,
                   pending, completion, titleTask, db, cache, log>>

SaveFailureRethrown == <<Part("error", <<>>, <<>>)>>

\* catch (dbError) { console.error("Failed to save assistant message") }:
\* what a rejected create puts on the stream before it is closed
SaveFailureParts == <<Part("finish", <<>>, <<>>)>>

\* onFinal: await db.message.create(assistant message) inside try/catch
PersistAssistant(r) ==
    /\ pc[r] = "persist_assistant"
    /\ \E ok \in BOOLEAN :
        IF ok
        THEN /\ db' = [db EXCEPT !.messages =
                          Append(@, DbMessage(body[r].chatId, "assistant",
                                              completion[r],
                                              Stringify(collectedSources[r])))]
             /\ log' = [log EXCEPT ![r].creates = @ + 1]
             /\ stream' = [stream EXCEPT ![r] = Written(r, Part("finish", <<>>, <<>>))]
        ELSE /\ log' = [log EXCEPT ![r].creates = @ + 1,
                                   ![r].errors = @ \cup {"Failed to save assistant message"}]
             /\ stream' = [stream EXCEPT ![r] =
                              IF ClientListens(r) THEN @ \o SaveFailureParts ELSE @]
             /\ UNCHANGED db
    /\ pc' = [pc EXCEPT ![r] = "done"]
    /\ UNCHANGED <<gw, cls, now, body, response, userQuery, rewrittenQuery, langChainMessages,
                   currentMessages, collectedSources, iter, toolCallingFailed,
                   pending, completion, titleTask, cache>>

Next ==
    \/ \E r \in Reqs : Validate(r)
    \/ \E r \in Reqs : PersistUser(r)
    \/ \E r \in Reqs : TitleFind(r)
    \/ \E r \in Reqs : TitleUpdate(r)
    \/ \E r \in Reqs : Rewrite(r)
    \/ \E r \in Reqs : LoopInvoke(r)
    \/ \E r \in Reqs : ExecTool(r)
    \/ \E r \in Reqs : AfterLoop(r)
    \/ \E r \in Reqs : StreamCall(r)
    \/ \E r \in Reqs : StreamChunk(r)
    \/ \E r \in Reqs : StreamFinish(r)
    \/ \E r \in Reqs : StreamBreak(r)
    \/ \E r \in Reqs : PersistAssistant(r)

Spec == Init /\ [][Next]_vars


\* The request up to the streaming model call.  Every await of the tool
\* loop settles (the call returns or throws) and its continuation runs.
LoopStep(r) == LoopInvoke(r) \/ ExecTool(r) \/ AfterLoop(r)

NextLoop ==
    \/ \E r \in Reqs : Validate(r)
    \/ \E r \in Reqs : PersistUser(r)
    \/ \E r \in Reqs : Rewrite(r)
    \/ \E r \in Reqs : LoopInvoke(r)
    \/ \E r \in Reqs : ExecTool(r)
    \/ \E r \in Reqs : AfterLoop(r)

LoopSpec ==
    Init /\ [][NextLoop]_vars /\ \A r \in Reqs : WF_vars(LoopStep(r))

----------------------------------------------------------------------------
(* Two requests at once.  Their handlers are interleaved at their awaits.  *)

TextOf(n, ch) == [i \in 1..n |-> ch]

UserMessage(text) == UIMessage("user", TRUE, <<TextPart(text)>>, "none", <<>>, <<>>)

StartOfPair(bodies) ==
    /\ body \in bodies
    /\ RouteStart(Reqs)
    /\ gw = <<>> /\ cls = NoClassification

\* a first message and a follow-up with the same text, in one conversation
\* or in two
PairBodies ==
    { [r \in Reqs |-> IF r = 1 THEN Body("array", <<MsgPartsA>>, "c1")
                      ELSE Body("array", <<MsgStringH, MsgAssistant, MsgPartsA>>, c)] :
        c \in {"c1", "c2"} }

InitPair == StartOfPair(PairBodies)

\* the tool loops of the two requests share the cache within one
\* revalidate window and their streams run to their end; the title chains
\* and broken streams are left to TitlePairSpec
NextPair ==
    \/ \E r \in Reqs : Validate(r)
    \/ \E r \in Reqs : PersistUser(r)
    \/ \E r \in Reqs : Rewrite(r)
    \/ \E r \in Reqs : LoopInvoke(r) /\ log'[r].toolCalls <= MaxPairCalls
    \/ \E r \in Reqs : ExecTool(r) /\ now' = now
    \/ \E r \in Reqs : AfterLoop(r)
    \/ \E r \in Reqs : StreamCall(r)
    \/ \E r \in Reqs : StreamChunk(r) /\ Len(completion'[r]) <= MaxPairChunks
    \/ \E r \in Reqs : StreamFinish(r)
    \/ \E r \in Reqs : PersistAssistant(r)

PairSpec == InitPair /\ [][NextPair]_vars

\* a text longer than a title, next to a short one in the same conversation
\* or one as long as a title may be in another conversation
TitlePairBodies ==
    { [r \in Reqs |-> IF r = 1
                      THEN Body("array", <<UserMessage(TextOf(TITLE_MAX + 1, "x"))>>, "c1")
                      ELSE b] :
        b \in { Body("array", <<UserMessage(<<"a">>)>>, "c1"),
                Body("array", <<UserMessage(TextOf(TITLE_MAX, "y"))>>, "c2") } }

InitTitlePair == StartOfPair(TitlePairBodies)

\* the title chains of the two requests next to everything that writes to
\* the store; the model answers the tool loop's call and asks for no tool
NextTitlePair ==
    \/ \E r \in Reqs : Validate(r)
    \/ \E r \in Reqs : PersistUser(r)
    \/ \E r \in Reqs : TitleFind(r)
    \/ \E r \in Reqs : TitleUpdate(r)
    \/ \E r \in Reqs : Rewrite(r)
    \/ \E r \in Reqs : LoopInvoke(r) /\ pending'[r] = <<>> /\ ~toolCallingFailed'[r]
    \/ \E r \in Reqs : AfterLoop(r)
    \/ \E r \in Reqs : StreamCall(r)
    \/ \E r \in Reqs : StreamChunk(r) /\ Len(completion'[r]) <= MaxPairChunks
    \/ \E r \in Reqs : StreamFinish(r)
    \/ \E r \in Reqs : StreamBreak(r)
    \/ \E r \in Reqs : PersistAssistant(r)

TitlePairSpec == InitTitlePair /\ [][NextTitlePair]_vars

----------------------------------------------------------------------------
(* The search gateway on its own *)

ItemL == RawItem("L", "http://l", "http://u", "s", "c", "g")

\* sequences over S of length lo..hi
SeqsOf(S, lo, hi) == UNION {[1..n -> S] : n \in lo..hi}

ResultsShape == JObj(EmptyItem, TRUE, <<ItemA>>)

\* payloads of the primary tool
GatewayPrimary ==
    { RawThrow, RawNonString, RawSentinel, RawGarbage, RawJoined(<<>>) }
    \cup { RawJoined([i \in 1..Len(items) |-> JObj(items[i], FALSE, <<>>)]) :
             items \in SeqsOf({ItemA, ItemB, ItemL}, 1, MaxItems) }
    \cup { RawJoined(<<JArr(<<>>)>>),
           RawJoined(<<JArr(<<JObj(ItemA, FALSE, <<>>), JObj(ItemB, FALSE, <<>>)>>)>>),
           RawJoined(<<JArr(<<JObj(ItemA, FALSE, <<>>)>>), JObj(ItemB, FALSE, <<>>)>>),
           RawJoined(<<ResultsShape>>),
           RawJoined(<<JObj(ItemA, FALSE, <<>>), JNull>>),
           RawJoined(<<JNumber>>) }

\* outcomes of the direct request
GatewayDirect ==
    { DirectNetworkError, DirectStatus, DirectBadBody, DirectNoResultsField,
      DirectBadResults, DirectJson(<<>>) }
    \cup { DirectJson(items) : items \in SeqsOf({ItemC, ItemB, EmptyItem}, 1, MaxItems) }

GatewayLimits == (0..MaxLimit) \cup {SEARCH_LIMIT}

GatewayQueries == { <<"q">>, <<"p">> }

NotReturned == GatewayResult(FALSE, <<>>, 0)

\* one call of the gateway: its arguments, the time it is made, what the
\* backend does during it, and what it returned
GatewayCall(query, limit, at, primary, direct, done, hit, out) ==
    [query |-> query, limit |-> limit, at |-> at, primary |-> primary,
     direct |-> direct, done |-> done, hit |-> hit, out |-> out]

\* searchWebInternal(query, limit) is to be called
InitGateway ==
    /\ RouteInit({})
    /\ cls = NoClassification
    /\ \E limit \in GatewayLimits, primary \in GatewayPrimary, direct \in GatewayDirect :
           gw = <<GatewayCall(<<"q">>, limit, 0, primary, direct, FALSE, FALSE,
                              NotReturned)>>

GatewaySearch ==
    /\ gw # <<>>
    /\ ~gw[1].done
    /\ gw' = <<[gw[1] EXCEPT !.done = TRUE,
                             !.out = searchWebInternal(gw[1].primary, gw[1].direct,
                                                       gw[1].limit)]>>
    /\ UNCHANGED <<routeVars, cache, now, cls>>

NextGateway == GatewaySearch

GatewaySpec == InitGateway /\ [][NextGateway]_vars

\* getSearchResultsStructured(query), called one call after the other's
\* return; t is the time of the call
CachedSearch ==
    /\ Len(gw) < MaxGatewayCalls
    /\ \E query \in GatewayQueries, primary \in SamplePrimary,
          direct \in SampleDirect, t \in now..MaxWindows :
        LET sw == getSearchResultsStructured(cache, t, query, primary, direct)
        IN /\ gw' = Append(gw, GatewayCall(query, SEARCH_LIMIT, t, primary, direct,
                                           TRUE, sw.hit, sw.result))
           /\ cache' = sw.cache
           /\ now' = t
    /\ UNCHANGED <<routeVars, cls>>

NextCache == CachedSearch

CacheSpec == InitFor({}) /\ [][NextCache]_vars

----------------------------------------------------------------------------
(* Query classifier (lib/llm), heuristic stage.  A query is a sequence of  *)
(* tokens: words, numbers, an operator, punctuation and single spaces.     *)

\* the words written with a capital first letter, and their lower case
Lowered == [t \in {"Hello", "Are", "Paris"} |->
               CASE t = "Hello" -> "hello" [] t = "Are" -> "are" [] OTHER -> "paris"]

\* /^[A-Z][a-z]+/ on the first token of a word
IsCapitalised(t) == t \in DOMAIN Lowered

\* query.toLowerCase()
ToLowerCase(q) ==
    [k \in 1..Len(q) |-> IF IsCapitalised(q[k]) THEN Lowered[q[k]] ELSE q[k]]

Digits == {"5", "2024"}          \* \d+
Years == {"2024"}                \* 20\d{2}
Operators == {"+", "-", "*", "/", "%", "^"}
PunctOrSpace == {SPACE, "!", ".", ",", "?"}      \* [\s!.,?]

\* \w: a token that counts as part of a word for \b
IsWordToken(t) == t \notin PunctOrSpace \cup Operators

\* one element of a pattern: the gap before it (none, \s* or \s+) and the
\* alternatives it accepts
Elem(gap, alts) == [gap |-> gap, alts |-> alts]

RECURSIVE SkipSpaces(_, _)
SkipSpaces(q, i) ==
    IF i <= Len(q) /\ q[i] = SPACE THEN SkipSpaces(q, i + 1) ELSE i

\* the index after a match of pat in q starting at i, or 0
RECURSIVE MatchAt(_, _, _)
MatchAt(q, i, pat) ==
    IF pat = <<>> THEN i
    ELSE LET e == Head(pat)
             j == SkipSpaces(q, i)
         IN IF e.gap = "none" /\ j # i THEN 0
            ELSE IF e.gap = "req" /\ j = i THEN 0
            ELSE IF j > Len(q) \/ q[j] \notin e.alts THEN 0
            ELSE MatchAt(q, j + 1, Tail(pat))

\* /^pat/
MatchesPrefix(q, pat) == MatchAt(q, 1, pat) > 0

\* /^pat tail*$/
MatchesWhole(q, pat, tail) ==
    LET k == MatchAt(q, 1, pat)
    IN k > 0 /\ \A m \in k..Len(q) : q[m] \in tail

BoundaryBefore(q, i) == i = 1 \/ ~IsWordToken(q[i - 1])
BoundaryAfter(q, k) == k > Len(q) \/ ~IsWordToken(q[k])

\* /\bpat\b/
MatchesWord(q, pat) ==
    \E i \in 1..Len(q) :
        LET k == MatchAt(q, i, pat)
        IN k > 0 /\ BoundaryBefore(q, i) /\ BoundaryAfter(q, k)

noSearchWhole ==
    { <<Elem("none", {"hi", "hello", "hey", "greetings"})>>,
      <<Elem("none", {"good"}), Elem("opt", {"morning", "afternoon", "evening"})>>,
      <<Elem("none", {"thanks", "thx", "ty"})>>,
      <<Elem("none", {"thank"}), Elem("opt", {"you"})>>,
      <<Elem("none", {"bye", "goodbye", "later"})>>,
      <<Elem("none", {"see"}), Elem("opt", {"you"})>> }

noSearchPrefix ==
    { <<Elem("none", {"what"}), Elem("opt", {"can", "do"}), Elem("opt", {"you"}),
        Elem("opt", {"do"})>>,
      <<Elem("none", {"who"}), Elem("opt", {"are"}), Elem("opt", {"you"})>>,
      <<Elem("none", {"how"}), Elem("opt", {"are"}), Elem("opt", {"you"})>>,
      <<Elem("none", Digits), Elem("opt", Operators), Elem("opt", Digits)>>,
      <<Elem("none", {"calculate", "compute", "solve"}), Elem("req", Digits)>> }

\* for (const pattern of noSearchPatterns) if (pattern.test(q)) ...
MatchesNoSearch(q) ==
    \/ \E pat \in noSearchWhole : MatchesWhole(q, pat, PunctOrSpace)
    \/ \E pat \in noSearchPrefix : MatchesPrefix(q, pat)
    \/ MatchesWhole(q, <<Elem("none", {"help"})>>, {SPACE})

searchWords ==
    { "latest", "recent", "current", "today", "yesterday", "now",
      "news", "update", "announcement", "release", "launched",
      "price", "cost", "weather", "stock", "score", "rate",
      "born", "died", "age", "height", "salary",
      "tutorial", "guide", "steps", "install",
      "best", "top", "review", "comparison", "vs", "versus",
      "president", "ceo", "founder", "minister", "leader",
      "population", "capital", "currency", "country" } \cup Years

searchPhrases ==
    { <<Elem("none", {"this"}), Elem("opt", {"week", "month", "year"})>>,
      <<Elem("none", {"net"}), Elem("opt", {"worth"})>>,
      <<Elem("none", {"how"}), Elem("req", {"to"})>> }

\* /^(who|what|...)\s+(is|are|...)\s/
MatchesQuestion(q) ==
    LET k == MatchAt(q, 1, <<Elem("none", {"who", "what", "when", "where", "why", "how"}),
                             Elem("req", {"is", "are", "was", "were", "did", "does",
                                          "do", "will", "would", "can", "could"})>>)
    IN k > 0 /\ k <= Len(q) /\ q[k] = SPACE

\* for (const pattern of searchPatterns) if (pattern.test(q)) ...
MatchesSearch(q) ==
    \/ MatchesQuestion(q)
    \/ MatchesWord(q, <<Elem("none", searchWords)>>)
    \/ \E pat \in searchPhrases : MatchesWord(q, pat)

FirstSpace(s) == CHOOSE i \in 1..Len(s) : s[i] = SPACE /\ \A h \in 1..(i - 1) : s[h] # SPACE

\* query.split(/\s+/): a leading or trailing run of spaces gives an empty word
RECURSIVE SplitSpaces(_)
SplitSpaces(s) ==
    IF \A i \in 1..Len(s) : s[i] # SPACE THEN <<s>>
    ELSE LET i == FirstSpace(s)
             j == SkipSpaces(s, i)
         IN <<SubSeq(s, 1, i - 1)>> \o SplitSpaces(SubSeq(s, j, Len(s)))

\* words.slice(1).some(w => /^[A-Z][a-z]+/.test(w))
hasProperNoun(query) ==
    LET words == SplitSpaces(query)
    IN \E k \in 2..Len(words) : words[k] # <<>> /\ IsCapitalised(words[k][1])

classifyQueryHeuristicSearchFirst(query) ==
    LET q == Trim(ToLowerCase(query))
    IN IF MatchesSearch(q) THEN "SEARCH"
       ELSE IF MatchesNoSearch(q) THEN "NO_SEARCH"
       ELSE IF hasProperNoun(query) THEN "SEARCH"
       ELSE "AMBIGUOUS"

classifyQueryHeuristicNoSearchPatterns(query) ==
    LET q == Trim(ToLowerCase(query))
    IN IF MatchesNoSearch(q) THEN "NO_SEARCH"
       ELSE IF hasProperNoun(query) THEN "SEARCH"
       ELSE "AMBIGUOUS"

classifyQueryHeuristic(query) ==
    LET q == Trim(ToLowerCase(query))
    IN IF MatchesNoSearch(q) THEN "NO_SEARCH"
       ELSE IF MatchesSearch(q) THEN "SEARCH"
       ELSE IF hasProperNoun(query) THEN "SEARCH"
       ELSE "AMBIGUOUS"

\* the queries of the model: words joined by single spaces, after an
\* optional space and before optional punctuation or space
Vocabulary ==
    { "hello", "how", "are", "you", "price", "paris", "5", "+", "calculate",
      "Hello", "Are", "Paris" }

RECURSIVE JoinWords(_)
JoinWords(ws) ==
    IF Len(ws) <= 1 THEN ws ELSE <<Head(ws), SPACE>> \o JoinWords(Tail(ws))

SampleQueries ==
    { lead \o JoinWords(ws) \o trail :
        lead \in {<<>>, <<SPACE>>},
        ws \in SeqsOf(Vocabulary, 1, MaxWords),
        trail \in {<<>>, <<"!">>, <<SPACE>>} }

\* classifyQueryHeuristic(query) is to be called
InitClassifier ==
    /\ RouteInit({})
    /\ gw = <<>>
    /\ \E query \in SampleQueries :
           cls = [NoClassification EXCEPT !.query = query]

ClassifyHeuristic ==
    /\ ~cls.done
    /\ cls.query # <<>>
    /\ cls' = [cls EXCEPT !.done = TRUE,
                          !.decision = classifyQueryHeuristic(cls.query)]
    /\ UNCHANGED <<routeVars, cache, now, gw>>

NextClassifier == ClassifyHeuristic

ClassifierSpec == InitClassifier /\ [][NextClassifier]_vars

----------------------------------------------------------------------------
(* Query classifier, model stage (classifyAndRewrite).  The model's output *)
(* is a sequence of tokens: the two answers in either case, a word, a      *)
(* space, a line break and the think tags.                                 *)

NEWLINE == "NL"
Whitespace == {SPACE, NEWLINE}
THINK_OPEN == "<think>"
THINK_CLOSE == "</think>"

\* the tokens t with t.toUpperCase() = "SEARCH:", and those that hold NO_SEARCH
SearchPrefix == {"SEARCH:", "search:"}
NoSearchTokens == {"NO_SEARCH", "no_search"}

\* the tokens of the model's output
OutputTokens ==
    SearchPrefix \cup NoSearchTokens \cup {"w", SPACE, NEWLINE, THINK_OPEN, THINK_CLOSE}

\* String.prototype.trim(): spaces and line breaks at both ends
RECURSIVE TrimText(_)
TrimText(s) ==
    IF s = <<>> THEN <<>>
    ELSE IF Head(s) \in Whitespace THEN TrimText(Tail(s))
    ELSE IF s[Len(s)] \in Whitespace THEN TrimText(SubSeq(s, 1, Len(s) - 1))
    ELSE s

\* the first index from `from` on whose token is in S, or Len(s) + 1
RECURSIVE IndexIn(_, _, _)
IndexIn(s, S, from) ==
    IF from > Len(s) THEN Len(s) + 1
    ELSE IF s[from] \in S THEN from ELSE IndexIn(s, S, from + 1)

\* /<think>[\s\S]*?<\/think>/: the first opening tag and the first closing
\* tag after it
ThinkOpenAt(s) == IndexIn(s, {THINK_OPEN}, 1)
ThinkCloseAt(s) == IndexIn(s, {THINK_CLOSE}, ThinkOpenAt(s) + 1)
HasThinkBlock(s) == ThinkOpenAt(s) <= Len(s) /\ ThinkCloseAt(s) <= Len(s)

\* rawOutput.replace(/<think>[\s\S]*?<\/think>/gi, '')
RECURSIVE StripThink(_)
StripThink(s) ==
    IF ~HasThinkBlock(s) THEN s
    ELSE SubSeq(s, 1, ThinkOpenAt(s) - 1)
         \o StripThink(SubSeq(s, ThinkCloseAt(s) + 1, Len(s)))

\* rawOutput.match(/<think>([\s\S]*?)<\/think>/i)[1]
ThinkContent(s) == SubSeq(s, ThinkOpenAt(s) + 1, ThinkCloseAt(s) - 1)

\* thinkContent.match(/SEARCH:\s*(.+)/i): the prefix, then what follows the
\* white space after it up to the end of that line; when only white space
\* follows, (.+) takes a space of it if there is one
SearchMatch(content) ==
    LET i == IndexIn(content, SearchPrefix, 1)
        j == IndexIn(content, OutputTokens \ Whitespace, i + 1)
        after == SubSeq(content, i + 1, Len(content))
    IN IF i > Len(content) THEN [found |-> FALSE, group |-> <<>>]
       ELSE IF after # <<>> /\ \A k \in 1..Len(after) : after[k] \in Whitespace
       THEN [found |-> \E k \in 1..Len(after) : after[k] = SPACE, group |-> <<SPACE>>]
       ELSE IF after = <<>> THEN [found |-> FALSE, group |-> <<>>]
       ELSE [found |-> TRUE,
             group |-> SubSeq(content, j, IndexIn(content, {NEWLINE}, j) - 1)]

\* if (!output) { ... }: the answer looked for inside the think block
RecoveredOutput(rawOutput) ==
    IF ~HasThinkBlock(rawOutput) THEN <<>>
    ELSE LET thinkContent == ThinkContent(rawOutput)
             searchMatch == SearchMatch(thinkContent)
         IN IF searchMatch.found
            THEN <<"SEARCH:", SPACE>> \o TrimText(searchMatch.group)
            ELSE IF \E k \in 1..Len(thinkContent) : thinkContent[k] \in NoSearchTokens
            THEN <<"NO_SEARCH">>
            ELSE <<>>

\* the text the parsing works on
ParsedOutput(rawOutput) ==
    LET output == TrimText(StripThink(rawOutput))
    IN IF output = <<>> THEN RecoveredOutput(rawOutput) ELSE output

ClassificationResult(threw, decision, query) ==
    [threw |-> threw, decision |-> decision, query |-> query, modelCalls |-> 1]

ParseAnyLine(output, currentQuery) ==
    LET i == IndexIn(output, SearchPrefix, 1)
    IN IF i <= Len(output)
       THEN ClassificationResult(FALSE, "SEARCH",
                LET rewritten == TrimText(SubSeq(output, i + 1, Len(output)))
                IN IF rewritten = <<>> THEN currentQuery ELSE rewritten)
       ELSE IF \E k \in 1..Len(output) : output[k] \in NoSearchTokens
       THEN ClassificationResult(FALSE, "NO_SEARCH", currentQuery)
       ELSE ClassificationResult(FALSE, "SEARCH", currentQuery)

\* // Parse response ... // Fallback
ParseOutput(output, currentQuery) ==
    IF output # <<>> /\ Head(output) \in SearchPrefix
    THEN ClassificationResult(FALSE, "SEARCH",
             LET rewritten == TrimText(Tail(output))
             IN IF rewritten = <<>> THEN currentQuery ELSE rewritten)
    ELSE IF \E k \in 1..Len(output) : output[k] \in NoSearchTokens
    THEN ClassificationResult(FALSE, "NO_SEARCH", currentQuery)
    ELSE ClassificationResult(FALSE, "SEARCH", currentQuery)

OnClassifierErrorRethrown(currentQuery) ==
    ClassificationResult(TRUE, "", <<>>)

\* catch (error) { ... return { decision: 'SEARCH', query: currentQuery } }
OnClassifierError(currentQuery) ==
    ClassificationResult(FALSE, "SEARCH", currentQuery)

\* conversationHistory.slice(-4): the number of history lines in the prompt
ContextLines(history) == Min(4, Len(history))

\* answer: what classifierModel.invoke does (throw, or respond with content)
classifyAndRewrite(history, currentQuery, answer) ==
    IF answer.threw THEN OnClassifierError(currentQuery)
    ELSE ParseOutput(ParsedOutput(answer.content), currentQuery)

ClassifierResponses ==
    {[threw |-> TRUE, content |-> <<>>]}
    \cup {[threw |-> FALSE, content |-> o] : o \in SeqsOf(OutputTokens, 0, MaxOutput)}

HistoryEntry == <<"human", <<"h">>>>

\* no history, one message, more messages than the prompt takes
SampleHistories == { <<>>, <<HistoryEntry>>, [k \in 1..5 |-> HistoryEntry] }

\* classifyAndRewrite(history, query) is to be called, and the model will
\* respond with cls.response
InitRewrite ==
    /\ RouteInit({})
    /\ gw = <<>>
    /\ \E history \in SampleHistories, answer \in ClassifierResponses :
           cls = [NoClassification EXCEPT !.query = <<"q">>, !.history = history,
                                          !.response = answer]

ClassifyAndRewrite ==
    /\ ~cls.done
    /\ cls.query # <<>>
    /\ LET res == classifyAndRewrite(cls.history, cls.query, cls.response)
       IN cls' = [cls EXCEPT !.done = TRUE, !.decision = res.decision,
                             !.out = res.query, !.threw = res.threw,
                             !.modelCalls = @ + res.modelCalls,
                             !.context = ContextLines(cls.history)]
    /\ UNCHANGED <<routeVars, cache, now, gw>>

NextRewrite == ClassifyAndRewrite

RewriteSpec == InitRewrite /\ [][NextRewrite]_vars

----------------------------------------------------------------------------
(* Query classifier, the two stages together *)

\* stage 1, then stage 2 only when stage 1 says AMBIGUOUS, or says SEARCH
\* and there is conversation history
classifyQuery(history, query, answer) ==
    LET stage1 == classifyQueryHeuristic(query)
    IN IF stage1 = "NO_SEARCH" \/ (stage1 = "SEARCH" /\ history = <<>>)
       THEN [threw |-> FALSE, decision |-> stage1, query |-> query, modelCalls |-> 0]
       ELSE classifyAndRewrite(history, query, answer)

PipelineQueries ==
    { lead \o JoinWords(ws) \o trail :
        lead \in {<<>>, <<SPACE>>},
        ws \in SeqsOf(Vocabulary, 1, MaxWords - 1),
        trail \in {<<>>, <<"!">>, <<SPACE>>} }

PipelineAnswers ==
    { [threw |-> TRUE, content |-> <<>>],
      [threw |-> FALSE, content |-> <<"SEARCH:", SPACE, "w">>],
      [threw |-> FALSE, content |-> <<"NO_SEARCH">>],
      [threw |-> FALSE, content |-> <<>>] }

\* the classifier is to be called with a query and a history
InitPipeline ==
    /\ RouteInit({})
    /\ gw = <<>>
    /\ \E query \in PipelineQueries, history \in {<<>>, <<HistoryEntry>>},
          answer \in PipelineAnswers :
           cls = [NoClassification EXCEPT !.query = query, !.history = history,
                                          !.response = answer]

ClassifyQuery ==
    /\ ~cls.done
    /\ cls.query # <<>>
    /\ LET res == classifyQuery(cls.history, cls.query, cls.response)
       IN cls' = [cls EXCEPT !.done = TRUE, !.decision = res.decision,
                             !.out = res.query, !.threw = res.threw,
                             !.modelCalls = @ + res.modelCalls,
                             !.context = IF res.modelCalls > 0
                                         THEN ContextLines(cls.history) ELSE @]
    /\ UNCHANGED <<routeVars, cache, now, gw>>

NextPipeline == ClassifyQuery

PipelineSpec == InitPipeline /\ [][NextPipeline]_vars

----------------------------------------------------------------------------
(* Properties *)

InLoop(r) == pc[r] \in {"loop", "exec", "after_loop"}

StreamBegun(r) ==
    pc[r] \in {"stream_call", "streaming", "persist_assistant", "done"}
    /\ response[r] = "stream"

ErrorResponse(r) == response[r] \in {"400", "500"}

\* system prompt, prior turns, rewritten query
OriginalList(r) ==
    <<SystemMessage>> \o toLangChainMessages(AllButLast(body[r].messages))
    \o <<HumanMessage(rewrittenQuery[r])>>

IsToolTraffic(m) == m.type = "tool" \/ (m.type = "ai" /\ m.tool_calls # <<>>)

NoToolTraffic(ms) == \A i \in 1..Len(ms) : ~IsToolTraffic(ms[i])

\* the conditions under which the request is to be rejected
Rejectable(b) ==
    \/ b.kind \in {"missing", "nonarray"}
    \/ /\ b.kind = "array"
       /\ \/ b.messages = <<>>
          \/ b.messages[Len(b.messages)].role # "user"
          \/ Trim(extractTextFromMessage(b.messages[Len(b.messages)])) = <<>>

NothingDone(r) ==
    /\ log[r].creates = 0 /\ log[r].rewrites = 0 /\ log[r].toolModelCalls = 0
    /\ log[r].searches = <<>> /\ log[r].streamed = <<>>
    /\ stream[r] = <<>> /\ titleTask[r] = NoTitleTask

\* C1: a request whose messages are missing, no array or empty, whose last
\* message is not from the user or has blank text, is answered with 400 and
\* has stored nothing, called no rewriter, search or model, opened no stream.
C1_InvalidRejected ==
    \A r \in Reqs :
        (pc[r] \notin {"idle", "start"} /\ Rejectable(body[r]))
        => (response[r] = "400" /\ pc[r] = "done" /\ NothingDone(r))

C1_Witness ==
    \E r \in Reqs :
        /\ pc[r] = "done" /\ response[r] = "400"
        /\ body[r].kind = "array" /\ body[r].messages # <<>>
        /\ LastMessage(body[r]).role = "user"
        /\ extractTextFromMessage(LastMessage(body[r])) # <<>>

\* C2: an error response is given only to a request that did not pass
\* validation.
C2_ErrorOnlyFromValidating ==
    \A r \in Reqs : ErrorResponse(r) => ~log[r].validated

\* C3: a failed save of the user message does not end the request in an
\* error response.
C3_UserSaveFailureNotFatal ==
    \A r \in Reqs : log[r].userSaveFailed => ~ErrorResponse(r)

\* C4: once an iteration of the tool loop has thrown, no further model or
\* tool call of the loop is made, and the list handed to the streaming
\* model is exactly the original list; the request gets its stream.
C4_FallbackStreamsOriginal ==
    /\ [](\A r \in Reqs :
            toolCallingFailed[r] =>
                /\ pc[r] \notin {"loop", "exec"}
                /\ ~ErrorResponse(r)
                /\ (log[r].streamed # <<>> =>
                        /\ log[r].streamed = OriginalList(r)
                        /\ currentMessages[r] = langChainMessages[r]
                        /\ NoToolTraffic(log[r].streamed)
                        /\ response[r] = "stream"))
    /\ [][\A r \in Reqs :
            toolCallingFailed[r] =>
                /\ log'[r].toolModelCalls = log[r].toolModelCalls
                /\ log'[r].searches = log[r].searches]_vars

C4_Witness ==
    \E r \in Reqs :
        /\ toolCallingFailed[r] /\ log[r].streamed # <<>>
        /\ log[r].toolModelCalls >= 2 /\ collectedSources[r] # <<>>


\* the first response of the model called the search tool, and both the
\* primary tool and the direct request of that search threw
FirstSearchBackendThrew(r) ==
    /\ log[r].searches # <<>>
    /\ log[r].searches[1].iter = 0
    /\ log[r].searches[1].primary = "throw"
    /\ log[r].searches[1].direct = "network_error"

AssistantSaved(r) ==
    \E i \in 1..Len(db.messages) :
        /\ db.messages[i].role = "assistant"
        /\ db.messages[i].content = completion[r]
        /\ db.messages[i].sources = Stringify(collectedSources[r])

\* C5 as stated: after a search whose backend threw in the first iteration,
\* the list handed to the streaming model carries no tool-call and no
\* tool-result message, and no error response is given.
C5_BackendThrowFallsBack ==
    \A r \in Reqs :
        (FirstSearchBackendThrew(r) /\ log[r].streamed # <<>>)
        => (NoToolTraffic(log[r].streamed) /\ ~ErrorResponse(r))

\* C5 amended: the gateway turns the backend's throw into an empty list, so
\* the search is answered with the "no results" tool message and the loop
\* goes on; the fallback is taken only if a later model call throws.  The
\* request gets no error response, and a stream that settles with text for
\* a request with a chatId is saved unless that save fails.
C5_BackendThrowAbsorbed ==
    \A r \in Reqs :
        FirstSearchBackendThrew(r) =>
            /\ ~ErrorResponse(r)
            /\ log[r].searches[1].found = 0
            /\ (toolCallingFailed[r] => log[r].toolModelCalls >= 2)
            /\ (~toolCallingFailed[r] /\ (pending[r] = <<>> \/ log[r].streamed # <<>>) =>
                    \E i \in 1..Len(currentMessages[r]) :
                        /\ currentMessages[r][i] = ToolMessage(NoResultsContent, "web_search")
                        /\ \E j \in 1..(i - 1) :
                               /\ currentMessages[r][j].type = "ai"
                               /\ currentMessages[r][j].tool_calls # <<>>)
            /\ (~toolCallingFailed[r] /\ log[r].streamed # <<>> =>
                    ~NoToolTraffic(log[r].streamed))
            /\ (/\ pc[r] = "done" /\ log[r].finals = 1
                /\ body[r].chatId # "" /\ completion[r] # <<>>
                /\ "Failed to save assistant message" \notin log[r].errors
                => AssistantSaved(r))

C5_Witness ==
    \E r \in Reqs :
        /\ FirstSearchBackendThrew(r) /\ ~toolCallingFailed[r]
        /\ pc[r] = "done" /\ log[r].finals = 1 /\ AssistantSaved(r)
        /\ ~NoToolTraffic(log[r].streamed)

\* C6: the tool-enabled model is called at most MAX_ITERATIONS times for a
\* request, the loop is left only towards the stream, and a request in the
\* loop gets to the streaming model call.
C6_LoopTerminates ==
    /\ [](\A r \in Reqs :
             /\ log[r].toolModelCalls <= MAX_ITERATIONS
             /\ iter[r] <= MAX_ITERATIONS
             /\ (pc[r] = "loop" => log[r].toolModelCalls = iter[r]))
    /\ [][\A r \in Reqs :
             (InLoop(r) /\ ~InLoop(r)') =>
                 (pc'[r] = "stream_call" /\ response'[r] = "stream"
                  /\ log'[r].streamed # <<>>)]_vars
    /\ \A r \in Reqs : (InLoop(r) ~> StreamBegun(r))

\* the five iterations are used up and the model still asked for tools
C6_Witness ==
    \E r \in Reqs :
        /\ pc[r] = "stream_call" /\ ~toolCallingFailed[r]
        /\ log[r].toolModelCalls = MAX_ITERATIONS
        /\ iter[r] = MAX_ITERATIONS
        /\ currentMessages[r][Len(currentMessages[r])].type = "tool"

\* C7: every search of a request uses the query that rewriteQuery returned,
\* whatever query the model put into the tool call; rewriteQuery is called
\* once, before the loop.
C7_SearchesRewrittenQuery ==
    \A r \in Reqs :
        /\ log[r].rewrites <= 1
        /\ (log[r].toolModelCalls > 0 => log[r].rewrites = 1)
        /\ \A i \in 1..Len(log[r].searches) :
               log[r].searches[i].query = rewrittenQuery[r]

C7_Witness ==
    \E r \in Reqs :
        /\ Len(log[r].searches) >= 2
        /\ rewrittenQuery[r] # userQuery[r]
        /\ \A i \in 1..Len(log[r].searches) :
               log[r].searches[i].args # log[r].searches[i].query

SourcesPositions(r) == {i \in 1..Len(stream[r]) : stream[r][i].type = "data-sources"}
TextPositions(r) == {i \in 1..Len(stream[r]) : stream[r][i].type = "text"}

\* C8: a stream holds exactly one sources part, written before any text,
\* when sources were collected, and none when no source was collected.
C8_SourcesPartFirst ==
    \A r \in Reqs :
        /\ (response[r] # "stream" => stream[r] = <<>>)
        /\ (response[r] = "stream" /\ collectedSources[r] # <<>> =>
                /\ Cardinality(SourcesPositions(r)) = 1
                /\ \A i \in SourcesPositions(r) :
                       /\ stream[r][i].data = SourcesData(collectedSources[r])
                       /\ \A t \in TextPositions(r) : i < t)
        /\ (response[r] = "stream" /\ collectedSources[r] = <<>> =>
                SourcesPositions(r) = {})

C8_Witness ==
    \E r \in Reqs :
        /\ Cardinality(SourcesPositions(r)) = 1
        /\ Cardinality(TextPositions(r)) = MaxChunks
        /\ Len(collectedSources[r]) > 1

\* C9: when the streaming model call is made no requested tool call is
\* outstanding, and from then on the message list, the source list and the
\* record of searches and model calls of the loop do not change.
C9_LoopDoneBeforeStream ==
    /\ [](\A r \in Reqs :
             StreamBegun(r) =>
                 /\ pending[r] = <<>>
                 /\ currentMessages[r] = log[r].streamed)
    /\ [][\A r \in Reqs :
             StreamBegun(r) =>
                 /\ currentMessages'[r] = currentMessages[r]
                 /\ collectedSources'[r] = collectedSources[r]
                 /\ log'[r].searches = log[r].searches
                 /\ log'[r].toolModelCalls = log[r].toolModelCalls]_vars

C9_Witness ==
    \E r \in Reqs :
        /\ StreamBegun(r) /\ TextPositions(r) # {}
        /\ Len(log[r].searches) >= 2 /\ collectedSources[r] # <<>>

\* the numbered entries the model is shown, over all messages of the list
LabelledItems(ms) ==
    UNION {{ms[i].content.items[k] : k \in 1..Len(ms[i].content.items)} :
              i \in 1..Len(ms)}

\* C10: the source the client shows as index n is the source the model
\* sees labelled [n].
C10_IndicesAgree ==
    \A r \in Reqs :
        (log[r].streamed # <<>> /\ collectedSources[r] # <<>>) =>
            LET shown == SourcesData(collectedSources[r])
                seen == LabelledItems(log[r].streamed)
            IN \A n \in 1..Len(shown) :
                   /\ \E it \in seen : it.label = n
                   /\ \A it \in seen :
                          it.label = n =>
                              (it.url = shown[n].url /\ it.content = shown[n].snippet)

AssistantMessages == {i \in 1..Len(db.messages) : db.messages[i].role = "assistant"}

\* the answer the client was sent: the text parts of its stream
DeliveredText(r) ==
    Join([k \in 1..Cardinality(TextPositions(r)) |-> <<"t">>])

Active(r) == pc[r] # "idle"

\* C11: an assistant message is stored only after the model stream has
\* settled, at most once for a request, with the whole answer text and the
\* serialized sources; and none is stored when the client went away or the
\* stream broke.
C11_AssistantOnlyAfterSettled ==
    \A r \in Reqs :
        Active(r) =>
            /\ Cardinality(AssistantMessages) <= 1
            /\ \A i \in AssistantMessages :
                   /\ log[r].finals = 1
                   /\ db.messages[i].content = completion[r]
                   /\ db.messages[i].sources = Stringify(collectedSources[r])
            /\ (HasPart(stream[r], "abort") \/ HasPart(stream[r], "error"))
                   => AssistantMessages = {}

SaveFailed(r) == "Failed to save assistant message" \in log[r].errors

\* C12: a failed save of the assistant message is logged and stays out of
\* the response: the response is the stream, no error part is written, and
\* a client that is still there has the whole answer and a closed stream.
C12_AssistantSaveFailureHidden ==
    \A r \in Reqs :
        /\ (pc[r] = "persist_assistant" =>
                (log[r].finals = 1 /\ completion[r] # <<>>
                 /\ (ClientListens(r) => DeliveredText(r) = completion[r])))
        /\ (SaveFailed(r) =>
                /\ response[r] = "stream" /\ pc[r] = "done"
                /\ ~HasPart(stream[r], "error")
                /\ AssistantMessages = {}
                /\ (ClientListens(r) =>
                        /\ DeliveredText(r) = completion[r]
                        /\ stream[r][Len(stream[r])].type = "finish"))

C12_Witness ==
    \E r \in Reqs :
        /\ SaveFailed(r) /\ ClientListens(r)
        /\ Len(completion[r]) = MaxChunks /\ collectedSources[r] # <<>>
        /\ stream[r][Len(stream[r])].type = "finish"

----------------------------------------------------------------------------
(* Properties of the search gateway *)

Returned == {i \in 1..Len(gw) : gw[i].done}

\* C13: searchWebInternal returns a list and propagates no error, whatever
\* the primary tool and the direct request do.
C13_GatewayNeverThrows ==
    \A i \in Returned :
        /\ ~gw[i].out.threw
        /\ Len(gw[i].out.results) >= 0

C13_Witness ==
    \E i \in Returned :
        /\ gw[i].primary = RawGarbage /\ gw[i].direct = DirectBadBody
        /\ ~gw[i].out.threw /\ gw[i].out.results = <<>>

\* the primary path threw, gave the sentinel, did not parse, or gave no result
PrimaryYieldsNothing(primary, limit) ==
    \/ primary.kind \in {"throw", "nonstring"}
    \/ primary.sentinel
    \/ primary.garbage
    \/ primary.vals = <<>>
    \/ limit = 0
    \/ /\ primary.vals[1].j = "arr"
       /\ (Len(primary.vals) > 1 \/ primary.vals[1].elems = <<>>)
    \/ \E k \in 1..Len(primary.vals) : k <= limit /\ primary.vals[k].j = "null"

DirectYieldsNothing(direct, limit) ==
    direct.kind # "json" \/ ~direct.hasResults \/ direct.results = <<>> \/ limit = 0

Count(seq, x) == Cardinality({k \in 1..Len(seq) : seq[k] = x})

\* C14: the primary tool is asked once and first; when it yields nothing the
\* direct request is made once before the gateway returns, and when that
\* yields nothing too the result is the empty list.
C14_FallbackOrder ==
    \A i \in Returned :
        LET c == gw[i]
        IN /\ c.out.backend # <<>> /\ c.out.backend[1] = "primary"
           /\ Count(c.out.backend, "primary") = 1
           /\ (PrimaryYieldsNothing(c.primary, c.limit) =>
                   c.out.backend = <<"primary", "direct">>)
           /\ (PrimaryYieldsNothing(c.primary, c.limit)
               /\ DirectYieldsNothing(c.direct, c.limit) => c.out.results = <<>>)

C14_Witness ==
    \E i \in Returned :
        /\ gw[i].primary = RawJoined(<<JArr(<<>>)>>)
        /\ gw[i].out.backend = <<"primary", "direct">>
        /\ gw[i].out.results # <<>>

SameKeyAndWindow(a, b) == a.query = b.query /\ a.limit = b.limit /\ a.at = b.at

\* C15: of the calls with one query and limit made within one revalidate
\* window only the first contacts the backend, and every later one returns
\* the list the first returned.
C15_SecondCallCached ==
    \A i \in Returned : \A j \in Returned :
        (i < j /\ SameKeyAndWindow(gw[i], gw[j])) =>
            /\ gw[j].hit /\ gw[j].out.backend = <<>>
            /\ gw[j].out.results = gw[i].out.results
            /\ ((\A h \in 1..(i - 1) : ~SameKeyAndWindow(gw[h], gw[i])) =>
                    Count(gw[i].out.backend, "primary") = 1)

C15_Witness ==
    \E i \in Returned : \E j \in Returned :
        /\ i < j /\ SameKeyAndWindow(gw[i], gw[j])
        /\ gw[j].hit /\ gw[j].out.results # <<>>
        /\ gw[j].primary # gw[i].primary

ThePayloadEntry ==
    [title |-> "A", url |-> "http://a", content |-> "x", engine |-> "e"]

\* C16: the payload {results: [{title: "A", url: "http://a", content: "x",
\* engine: "e"}]} on the primary path yields exactly that one result.
C16_ResultsShapeRoundTrip ==
    \A i \in Returned :
        (gw[i].primary = RawJoined(<<ResultsShape>>) /\ gw[i].limit >= 1) =>
            gw[i].out.results = <<ThePayloadEntry>>

\* a string that is no JSON, also inside brackets, or the empty string
Malformed(primary) ==
    /\ primary.kind = "string" /\ ~primary.sentinel
    /\ \/ primary.garbage
       \/ primary.vals = <<>>
       \/ (primary.vals[1].j = "arr" /\ Len(primary.vals) > 1)

\* what the direct request alone gives
DirectResults(direct, limit) ==
    IF direct.kind = "json" /\ direct.hasResults
    THEN [k \in 1..Min(limit, Len(direct.results)) |->
             [title |-> OrElse(direct.results[k].title, "Untitled"),
              url |-> direct.results[k].url,
              content |-> direct.results[k].content,
              engine |-> OrElse(direct.results[k].engine, "unknown")]]
    ELSE <<>>

\* C17: a malformed or empty string from the primary tool throws nothing and
\* gives no result of its own: the direct request is made and the gateway
\* returns what that gives.
C17_MalformedFallsBack ==
    \A i \in Returned :
        Malformed(gw[i].primary) =>
            /\ ~gw[i].out.threw
            /\ gw[i].out.backend = <<"primary", "direct">>
            /\ gw[i].out.results = DirectResults(gw[i].direct, gw[i].limit)

C17_Witness ==
    \E i \in Returned :
        /\ gw[i].primary = RawGarbage
        /\ gw[i].direct = DirectJson(<<ItemC>>) /\ gw[i].limit >= 1
        /\ Len(gw[i].out.results) = 1 /\ gw[i].out.results[1].title = "C"

\* the values the primary path maps to results: the elements of the array,
\* or the comma-joined values
EntriesRead(primary) ==
    IF primary.kind # "string" \/ primary.vals = <<>> THEN <<>>
    ELSE IF primary.vals[1].j = "arr"
    THEN [k \in 1..Len(primary.vals[1].elems) |-> FieldsOf(primary.vals[1].elems[k])]
    ELSE [k \in 1..Len(primary.vals) |-> FieldsOf(primary.vals[k])]

\* the backend's result list in a payload: the results array of an object
\* that has one, else the entries themselves
BackendList(primary) ==
    IF /\ primary.kind = "string" /\ Len(primary.vals) = 1
       /\ primary.vals[1].j = "obj" /\ primary.vals[1].hasResults
    THEN primary.vals[1].results
    ELSE EntriesRead(primary)

FromPrimary(c) == c.out.backend = <<"primary">>

SourceList(c) == IF FromPrimary(c) THEN EntriesRead(c.primary) ELSE c.direct.results

\* the result the path of call c makes of a backend entry
ResultOf(c, it) ==
    IF FromPrimary(c)
    THEN [title |-> OrElse(it.title, "Untitled"),
          url |-> OrElse(it.link, OrElse(it.url, "")),
          content |-> OrElse(it.snippet, OrElse(it.content, "")),
          engine |-> OrElse(it.engine, "searxng")]
    ELSE [title |-> OrElse(it.title, "Untitled"), url |-> it.url,
          content |-> it.content, engine |-> OrElse(it.engine, "unknown")]

FourFields(r) == DOMAIN r = {"title", "url", "content", "engine"}

\* C18: every result has its four fields: the title or "Untitled", link then
\* url then the empty string, snippet then content then the empty string,
\* the engine or a default tag, on either path.
C18_FieldsDefaulted ==
    \A i \in Returned :
        LET c == gw[i]
        IN \A k \in 1..Len(c.out.results) :
               LET r == c.out.results[k]
                   it == SourceList(c)[k]
               IN /\ FourFields(r)
                  /\ r.title = OrElse(it.title, "Untitled")
                  /\ r.url = OrElse(it.link, OrElse(it.url, ""))
                  /\ r.content = OrElse(it.snippet, OrElse(it.content, ""))
                  /\ r.engine \in {OrElse(it.engine, "searxng"),
                                   OrElse(it.engine, "unknown")}

\* C18 amended: on the primary path the fields are as stated; on the direct
\* path link and snippet are not read: url is the url or the empty string,
\* content the content or the empty string, engine the engine or "unknown".
C18_FieldsDefaultedPerPath ==
    \A i \in Returned :
        LET c == gw[i]
        IN \A k \in 1..Len(c.out.results) :
               LET r == c.out.results[k]
                   it == SourceList(c)[k]
               IN /\ FourFields(r)
                  /\ r.title = OrElse(it.title, "Untitled")
                  /\ r.title # ""
                  /\ IF FromPrimary(c)
                     THEN /\ r.url = OrElse(it.link, OrElse(it.url, ""))
                          /\ r.content = OrElse(it.snippet, OrElse(it.content, ""))
                          /\ r.engine = OrElse(it.engine, "searxng")
                     ELSE /\ r.url = it.url
                          /\ r.content = it.content
                          /\ r.engine = OrElse(it.engine, "unknown")

C18_Witness ==
    \E i \in Returned :
        /\ ~FromPrimary(gw[i]) /\ gw[i].direct = DirectJson(<<ItemB, EmptyItem>>)
        /\ Len(gw[i].out.results) = 2
        /\ gw[i].out.results[1].url = "" /\ gw[i].out.results[2].title = "Untitled"

\* C19: the gateway returns at most limit results, and they are the first
\* entries of the backend's list, in its order.
C19_PrefixOfBackendList ==
    \A i \in Returned :
        LET c == gw[i]
            src == IF FromPrimary(c) THEN BackendList(c.primary) ELSE c.direct.results
        IN /\ Len(c.out.results) <= c.limit
           /\ Len(c.out.results) <= Len(src)
           /\ \A k \in 1..Len(c.out.results) : c.out.results[k] = ResultOf(c, src[k])

----------------------------------------------------------------------------
(* Properties of the classifier *)

Normalised(query) == Trim(ToLowerCase(query))

\* C20: a query whose lower-cased, trimmed text matches a no-search pattern
\* is classified NO_SEARCH, with no model call, also when it matches a
\* search pattern or holds a proper noun.
C20_NoSearchFirst ==
    (cls.done /\ MatchesNoSearch(Normalised(cls.query))) =>
        (cls.decision = "NO_SEARCH" /\ cls.modelCalls = 0)

C20_Witness ==
    /\ cls.done /\ cls.decision = "NO_SEARCH"
    /\ cls.query = <<SPACE, "how", SPACE, "Are", SPACE, "you">>
    /\ MatchesSearch(Normalised(cls.query))
    /\ hasProperNoun(cls.query)


\* C21: a query that matches a search pattern and no no-search pattern,
\* asked without conversation history, is classified SEARCH with the query
\* itself as search query, and the model is not called.
C21_SearchPatternSkipsModel ==
    (/\ cls.done /\ cls.history = <<>>
     /\ MatchesSearch(Normalised(cls.query))
     /\ ~MatchesNoSearch(Normalised(cls.query))) =>
        /\ cls.decision = "SEARCH" /\ cls.out = cls.query
        /\ cls.modelCalls = 0 /\ ~cls.threw

C21_Witness ==
    /\ cls.done /\ cls.history = <<>>
    /\ cls.query = <<"price", SPACE, "paris">>
    /\ cls.response.content = <<"NO_SEARCH">>
    /\ cls.decision = "SEARCH" /\ cls.modelCalls = 0

\* the lines of a text
RECURSIVE LinesOf(_)
LinesOf(s) ==
    LET e == IndexIn(s, {NEWLINE}, 1)
    IN IF e > Len(s) THEN <<s>>
       ELSE <<SubSeq(s, 1, e - 1)>> \o LinesOf(SubSeq(s, e + 1, Len(s)))

BeginsWithSearch(line) == line # <<>> /\ Head(line) \in SearchPrefix

HoldsNoSearch(text) == \E k \in 1..Len(text) : text[k] \in NoSearchTokens

\* the text left of the model's answer once its think blocks are handled
AnswerText == ParsedOutput(cls.response.content)

Answered == cls.done /\ ~cls.response.threw

\* C22: a line of the answer that begins with SEARCH: gives SEARCH with the
\* rest of that line as query (the original query when the rest is empty);
\* else an answer that holds NO_SEARCH gives NO_SEARCH with the original
\* query; else SEARCH with the original query; never AMBIGUOUS.
C22_LinePrecedence ==
    Answered =>
        LET lines == LinesOf(AnswerText)
            hits == {k \in 1..Len(lines) : BeginsWithSearch(lines[k])}
        IN /\ cls.decision # "AMBIGUOUS"
           /\ IF hits # {}
              THEN LET line == lines[CHOOSE k \in hits : \A h \in hits : k <= h]
                       trailing == TrimText(Tail(line))
                   IN /\ cls.decision = "SEARCH"
                      /\ cls.out = IF trailing = <<>> THEN cls.query ELSE trailing
              ELSE IF HoldsNoSearch(AnswerText)
              THEN cls.decision = "NO_SEARCH" /\ cls.out = cls.query
              ELSE cls.decision = "SEARCH" /\ cls.out = cls.query

\* C22 amended: the precedence is applied to the answer as a whole: an
\* answer that begins with SEARCH: gives SEARCH with all the text after the
\* prefix, trimmed, as query (the original query when that is empty); else
\* an answer that holds NO_SEARCH gives NO_SEARCH with the original query;
\* else, also when a later line begins with SEARCH:, SEARCH with the
\* original query; never AMBIGUOUS.
C22_AnswerPrecedence ==
    Answered =>
        LET trailing == TrimText(Tail(AnswerText))
        IN /\ cls.decision \in {"SEARCH", "NO_SEARCH"}
           /\ ~cls.threw
           /\ IF BeginsWithSearch(AnswerText)
              THEN /\ cls.decision = "SEARCH"
                   /\ cls.out = IF trailing = <<>> THEN cls.query ELSE trailing
              ELSE IF HoldsNoSearch(AnswerText)
              THEN cls.decision = "NO_SEARCH" /\ cls.out = cls.query
              ELSE cls.decision = "SEARCH" /\ cls.out = cls.query

C22_Witness ==
    /\ Answered
    /\ cls.response.content = <<"w", NEWLINE, "search:", "w">>
    /\ cls.decision = "SEARCH" /\ cls.out = cls.query

\* C23: when the classifier model's call throws, classifyAndRewrite returns
\* SEARCH with the original query; it throws in no case.
C23_ModelFailureIsSearch ==
    cls.done =>
        /\ ~cls.threw
        /\ cls.modelCalls = 1
        /\ (cls.response.threw =>
                cls.decision = "SEARCH" /\ cls.out = cls.query)

C23_Witness ==
    /\ cls.done /\ cls.response.threw
    /\ Len(cls.history) > 4 /\ cls.context = 4
    /\ cls.decision = "SEARCH" /\ cls.out = <<"q">>

----------------------------------------------------------------------------
(* Properties of the cache *)

\* C30: an empty list is not served from the cache: a call made in the same
\* window as an earlier call with its query and limit that returned the
\* empty list contacts the backend again, unless a call between them
\* returned results.
C30_EmptyNotCached ==
    \A i \in Returned : \A j \in Returned :
        (/\ i < j /\ SameKeyAndWindow(gw[i], gw[j])
         /\ \A h \in i..(j - 1) :
                SameKeyAndWindow(gw[h], gw[i]) => gw[h].out.results = <<>>) =>
            /\ ~gw[j].hit
            /\ Count(gw[j].out.backend, "primary") = 1

----------------------------------------------------------------------------
(* Properties of the tool loop's message list *)

\* what the loop has appended to the running list of request r
Appended(r) ==
    SubSeq(currentMessages[r], Len(langChainMessages[r]) + 1, Len(currentMessages[r]))

\* the positions of the model's tool-call messages in a list
CallMessages(ms) == {p \in 1..Len(ms) : ms[p].type = "ai"}

\* the position after the group that starts at p
GroupEnd(ms, p) ==
    IF \E n \in CallMessages(ms) : n > p
    THEN CHOOSE n \in CallMessages(ms) : n > p /\ \A h \in CallMessages(ms) : h > p => n <= h
    ELSE Len(ms) + 1

\* the result message of a call: keyed to its id, or to its name
IsResultOf(m, call) ==
    /\ m.type = "tool"
    /\ m.tool_call_id = (IF call.id # "" THEN call.id ELSE call.name)
    /\ IF call.name = "web_search" THEN m.content.kind \in {"results", "noresults"}
       ELSE m.content = NotFoundContent(call.name)

\* C29: in the loop the running list is the original list followed by one
\* group for each response that carried tool calls: the model's tool-call
\* message, then one result message for each of its calls, in their order,
\* keyed to the call's id or its tool's name; a call of an unknown tool has
\* a "not found" result and breaks nothing; a response without tool calls
\* adds nothing.
C29_ToolCallGroups ==
    \A r \in Reqs :
        pc[r] \in {"loop", "exec", "after_loop"} =>
            LET ms == Appended(r)
                starts == CallMessages(ms)
            IN /\ SubSeq(currentMessages[r], 1, Len(langChainMessages[r]))
                    = langChainMessages[r]
               /\ ms # <<>> => 1 \in starts
               /\ Cardinality(starts) = iter[r] + (IF pc[r] = "exec" THEN 1 ELSE 0)
               /\ pc[r] # "exec" => pending[r] = <<>>
               /\ \A p \in starts :
                      LET calls == ms[p].tool_calls
                          done == GroupEnd(ms, p) - p - 1
                      IN /\ Len(calls) >= 1
                         /\ done = Len(calls) - (IF GroupEnd(ms, p) > Len(ms)
                                                 THEN Len(pending[r]) ELSE 0)
                         /\ GroupEnd(ms, p) > Len(ms) =>
                                pending[r] = SubSeq(calls, done + 1, Len(calls))
                         /\ \A m \in 1..done : IsResultOf(ms[p + m], calls[m])

C29_Witness ==
    \E r \in Reqs :
        /\ pc[r] = "after_loop" /\ ~toolCallingFailed[r] /\ iter[r] = 2
        /\ Len(Appended(r)) = 5
        /\ Appended(r)[1].tool_calls = <<UnknownCall, SearchCall>>
        /\ Appended(r)[2] = ToolMessage(NotFoundContent("lookup"), "t2")
        /\ Appended(r)[3].tool_call_id = "web_search"
        /\ Appended(r)[4].tool_calls = <<SearchCall>>

----------------------------------------------------------------------------
(* Properties of the store under two requests at once *)

FirstMessageOf(chatId) ==
    db.messages[CHOOSE k \in MessagesOf(db, chatId) :
                    \A j \in MessagesOf(db, chatId) : k <= j]

TitleFor(text) ==
    IF Len(text) <= 50 THEN text ELSE SubSeq(text, 1, 47) \o <<".", ".", ".">>

\* C24: a conversation's title is the one it was created with, or it is
\* derived from the user message of the conversation's first exchange: the
\* text itself when it has at most 50 characters, else its first 47
\* characters and "..."; it never has more than 50 characters, and no later
\* exchange of the conversation replaces it.
C24_TitleOfFirstExchange ==
    \A k \in 1..Len(Chats) :
        LET c == Chats[k]
        IN \/ db.title[c] = <<"New Chat">>
           \/ /\ MessagesOf(db, c) # {}
              /\ FirstMessageOf(c).role = "user"
              /\ db.title[c] = TitleFor(FirstMessageOf(c).content)
              /\ Len(db.title[c]) <= 50

\* the long first message gave the conversation its cut title, and the
\* second request's message and title chain are through
C24_Witness ==
    /\ body[2].chatId = "c1"
    /\ db.title["c1"] = TextOf(47, "x") \o <<".", ".", ".">>
    /\ Cardinality(MessagesOf(db, "c1")) >= 2
    /\ titleTask[2].state = "done"
    /\ pc[2] = "done"

\* the user message a request persists
OwnUserMessage(r) == DbMessage(body[r].chatId, "user", userQuery[r], NoSources)

HasOwnUserMessage(r) ==
    \E k \in 1..Len(db.messages) : db.messages[k] = OwnUserMessage(r)

\* the step in which request r creates its assistant message
CreatesAssistant(r) ==
    /\ pc[r] = "persist_assistant" /\ pc'[r] = "done"
    /\ Len(db'.messages) = Len(db.messages) + 1
    /\ db'.messages[Len(db'.messages)].role = "assistant"

\* C25: whatever the two requests do, the first persisted message of a
\* conversation that has messages is a user message, and a request creates
\* its assistant message only when its own user message is in the store.
C25_UserMessageFirst ==
    [][/\ \A k \in 1..Len(Chats) :
             MessagesOf(db', Chats[k]) # {} =>
                 (db'.messages[CHOOSE i \in MessagesOf(db', Chats[k]) :
                      \A j \in MessagesOf(db', Chats[k]) : i <= j]).role = "user"
       /\ \A r \in Reqs : CreatesAssistant(r) => HasOwnUserMessage(r)]_vars

\* both exchanges of one conversation are persisted, the second request's
\* assistant message before the first's
C25_Witness ==
    /\ body[2].chatId = "c1"
    /\ Len(db.messages) = 4
    /\ db.messages[1].role = "user" /\ db.messages[1].content = <<"a">>
    /\ db.messages[3].role = "assistant"
    /\ db.messages[4].role = "assistant"
    /\ pc[1] = "done" /\ pc[2] = "done"

\* the step in which the title chain of request r reads its conversation
ReadsCount(r) == titleTask[r].state = "find" /\ titleTask'[r].state # "find"

\* C27: under any interleaving of two requests, when a request's title
\* chain reads the conversation, that request's own user message is already
\* stored, so the number of messages it reads counts that message.
C27_OwnMessageCounted ==
    [][\A r \in Reqs :
          ReadsCount(r) =>
              /\ HasOwnUserMessage(r)
              /\ Cardinality(MessagesOf(db, body[r].chatId)) >= 1]_vars

\* the second request's chain has read two messages of the conversation
\* (its own and the first request's) and left the title alone
C27_Witness ==
    /\ body[2].chatId = "c1"
    /\ titleTask[2] = [state |-> "done", title |-> <<>>]
    /\ log[2].errors = {}
    /\ HasOwnUserMessage(1) /\ HasOwnUserMessage(2)
    /\ titleTask[1].state = "find"

\* C26: every message appended to a conversation advances the conversation's
\* updated timestamp, and the list of conversations then starts with it.
C26_AppendAdvancesUpdated ==
    [][\A k \in 1..Len(Chats) :
          Cardinality(MessagesOf(db', Chats[k])) > Cardinality(MessagesOf(db, Chats[k])) =>
              /\ db'.updatedAt[Chats[k]] > db.updatedAt[Chats[k]]
              /\ ListChats(db')[1] = Chats[k]]_vars

----------------------------------------------------------------------------
(* Properties of the tool loops of two requests at once *)

RECURSIVE ResultsOf(_)
\* what the search executions of a log returned, one after the other
ResultsOf(searches) ==
    IF searches = <<>> THEN <<>>
    ELSE Head(searches).results \o ResultsOf(Tail(searches))

OwnSources(r) == ResultsOf(log[r].searches)

\* the list the request builds from its own body and its own rewritten query
OwnOriginal(r) ==
    <<SystemMessage>> \o toLangChainMessages(AllButLast(body[r].messages))
        \o <<HumanMessage(rewrittenQuery[r])>>

Isolated(r) ==
    /\ collectedSources[r] = OwnSources(r)
    /\ currentMessages[r] # <<>> =>
          /\ Len(currentMessages[r]) >= Len(OwnOriginal(r))
          /\ SubSeq(currentMessages[r], 1, Len(OwnOriginal(r))) = OwnOriginal(r)
          /\ \A k \in Len(OwnOriginal(r)) + 1..Len(currentMessages[r]) :
                LET m == currentMessages[r][k]
                IN \/ m.type = "ai" /\ m.tool_calls # <<>>
                   \/ /\ m.type = "tool"
                      /\ m.content.kind = "results" =>
                            \E j \in 1..Len(log[r].searches) :
                                m.content = FormatResults(log[r].searches[j].results)
    /\ \A k \in 1..Len(stream[r]) :
          stream[r][k].type = "data-sources" =>
              stream[r][k].data = SourcesData(OwnSources(r))

\* C28: of two requests at once, the running message list and the collected
\* sources of each hold only what that request built and what its own
\* search executions returned, and so do the sources it sends to the client
\* and the sources it persists with its assistant message.
C28_RequestsIsolated ==
    [][\A r \in Reqs :
          /\ Isolated(r)'
          /\ CreatesAssistant(r) =>
                db'.messages[Len(db'.messages)] =
                    DbMessage(body[r].chatId, "assistant", completion[r],
                              Stringify(OwnSources(r)))]_vars

\* both requests have searched, found different sources and persisted them
C28_Witness ==
    /\ collectedSources[1] # <<>> /\ collectedSources[2] # <<>>
    /\ collectedSources[1] # collectedSources[2]
    /\ pc[1] = "done" /\ pc[2] = "done"
    /\ \E i, j \in 1..Len(db.messages) :
          /\ i # j
          /\ db.messages[i].sources = Stringify(collectedSources[1])
          /\ db.messages[j].sources = Stringify(collectedSources[2])

====
